---- MODULE Spec2Model ----
(***************************************************************************)
(* Model of the judgment engine of the interview assistant                 *)
(* (src/src/interview_assistant.py): InterviewAssistant.answer_question    *)
(* with its helpers _retrieve_candidates, _evaluate_candidates and         *)
(* _generate_answer.  Every blocking call to an external service (the      *)
(* vector index, the judgment model, the generation model) is one step.    *)
(*                                                                         *)
(* StoreSpec models VectorStoreManager (src/src/vectorstore.py) over one   *)
(* persisted Chroma collection, RetrieverSpec models AdvancedRetriever     *)
(* (src/retriever_module.py) and EvaluatorSpec models                      *)
(* QAEvaluator.evaluate_retrieval (src/src/evaluator.py); RunsSpec models  *)
(* the other operations of QAEvaluator and its evaluation history.         *)
(* WideSpec runs answer_question on wider index states, SessionSpec models *)
(* InterviewPracticeSession and ConcurrentSpec two answer_question calls   *)
(* made at the same time.  Each specification leaves the variables of the  *)
(* other components unchanged.                                             *)
(***************************************************************************)
EXTENDS Integers, Sequences, FiniteSets, TLC

(* ------------------------------ bounds --------------------------------- *)

\* largest number of documents held by the vector index
MaxDocs == 3

\* largest top_k a caller passes to answer_question
MaxTopK == 3

\* longest document batch passed to create_vectorstore or add_documents
MaxBatch == 3

\* largest number of entries the persisted collection is let grow to
MaxEntries == 3

\* largest k passed to VectorStoreManager.similarity_search
MaxSearchK == 2

\* largest k passed to the retrieval methods, besides one k above fetch_k
MaxRetrieveK == 2

\* longest list of retrieved documents given to the evaluator
MaxRetrieved == 3

\* longest list of relevant document ids given to the evaluator
MaxRelevant == 2

\* largest doc_id a document carries
MaxDocId == 1

\* largest k given to evaluate_retrieval
MaxEvalK == 3

\* largest number of evaluate_system_performance calls on one evaluator
MaxRuns == 2

\* largest number of practice_question calls in one session
MaxPractice == 2

(* ------------------------- program constants --------------------------- *)

\* evaluate_retrieval(..., k: int = 4)
DefaultEvalK == 4

\* doc.metadata.get('doc_id', -1)
MissingDocId == -1

\* mmr_retrieval(..., fetch_k: int = 20, ...)
DefaultFetchK == 20

\* mmr_retrieval(..., lambda_mult: float = 0.5), in tenths
DefaultLambdaTenths == 5

\* the rubric of the evaluation prompt: "relevance_score": <1-10>
MinScore == 1
MaxScore == 10

\* answer_question(..., min_relevance_score: int = 7)
DefaultMinRelevanceScore == 7

\* candidates[:3] in _generate_answer
ContextLimit == 3

\* answer_question(..., top_k: int = 5, ...)
DefaultTopK == 5

\* the relevance_score recorded when json.loads fails
FailedScore == 0

(* ------------------------------ inputs --------------------------------- *)

\* the texts of the prepared answers, all different
StoryTexts ==
    <<"story-A", "story-B", "story-C", "story-D", "story-E", "story-F">>

\* the i-th prepared answer: a Document with its page_content and metadata
Doc(i) == [page_content |-> StoryTexts[i], metadata |-> i]

\* the index states a question is asked against: the n documents nearest to
\* the question, nearest first
Stores == { [i \in 1..n |-> Doc(i)] : n \in 0..MaxDocs }

\* the three keys the evaluation prompt asks the judgment model for
EvalKeys == {"relevance_score", "reasoning", "should_use"}

\* the free-text parts of a judgment response
JudgeBodies ==
    { [reasoning |-> <<"direct match">>, should_use |-> TRUE],
      [reasoning |-> <<"off topic">>,    should_use |-> FALSE] }

\* self.llm.invoke(prompt) raised: the provider is unavailable
Unavailable ==
    [kind |-> "unavailable", keys |-> {}, relevance_score |-> 0,
     reasoning |-> <<>>, should_use |-> FALSE]

\* the judgment model answered with text that is not JSON
Malformed ==
    [kind |-> "malformed", keys |-> {}, relevance_score |-> 0,
     reasoning |-> <<>>, should_use |-> FALSE]

\* the judgment model answered with a JSON object holding the keys ks
JsonObject(ks, s, b) ==
    [kind |-> "json", keys |-> ks, relevance_score |-> s,
     reasoning |-> b.reasoning, should_use |-> b.should_use]

\* everything one call of the judgment model can produce
JudgeResponses ==
    {Unavailable, Malformed}
      \cup { JsonObject(EvalKeys, s, b) : s \in MinScore..MaxScore, b \in JudgeBodies }
      \cup { JsonObject(EvalKeys \ {k}, MaxScore, CHOOSE b \in JudgeBodies : b.should_use)
               : k \in EvalKeys }

\* everything one call of the generation model can produce
GenerationResponses ==
    { [kind |-> "unavailable", content |-> ""],
      [kind |-> "text", content |-> "generated-1"],
      [kind |-> "text", content |-> "generated-2"] }

\* a judgment response with all keys and the score s
Judged(s) ==
    JsonObject(EvalKeys, s,
               CHOOSE b \in JudgeBodies : b.should_use = (s >= DefaultMinRelevanceScore))

\* a few judgment responses: a failure of each kind, two scores below the
\* default threshold and one above it
FewJudgeResponses ==
    {Unavailable, Malformed, Judged(3), Judged(5), Judged(8)}

\* index states with up to one document more than _generate_answer uses
WideStores == { [i \in 1..n |-> Doc(i)] : n \in 0..(ContextLimit + 1) }

\* the values of top_k asked on those index states
WideTopKs == (1..(ContextLimit + 1)) \cup {DefaultTopK}

\* the thresholds callers pass as min_relevance_score
MinRelevanceScores == {DefaultMinRelevanceScore, MaxScore}

(* --------------------------- pure functions ---------------------------- *)

Min(a, b) == IF a < b THEN a ELSE b

\* the first n elements of s (Python s[:n])
Take(s, n) == SubSeq(s, 1, Min(n, Len(s)))

Digit(d) ==
    CASE d = 0 -> "0" [] d = 1 -> "1" [] d = 2 -> "2" [] d = 3 -> "3"
      [] d = 4 -> "4" [] d = 5 -> "5" [] d = 6 -> "6" [] d = 7 -> "7"
      [] d = 8 -> "8" [] d = 9 -> "9"

RECURSIVE IntToStr(_)
\* f"{n}" for a non-negative integer, as its sequence of characters
IntToStr(n) ==
    IF n < 10 THEN <<Digit(n)>> ELSE IntToStr(n \div 10) \o <<Digit(n % 10)>>

\* t occurs in s as a contiguous run of tokens (Python: t in s)
Contains(s, t) ==
    \E i \in 0..(Len(s) - Len(t)) : SubSeq(s, i + 1, i + Len(t)) = t

\* self.vectorstore.similarity_search(question, k=k): the k nearest documents,
\* nearest first; the index is kept in nearest-first order for the question
similarity_search(store, k) == Take(store, k)

\* _retrieve_candidates: one candidate per retrieved document, same order
retrieve_candidates(store, k) ==
    LET docs == similarity_search(store, k)
    IN  [i \in 1..Len(docs) |->
            [answer |-> docs[i].page_content, metadata |-> docs[i].metadata]]

\* the loop body without the except clause: invalid JSON escapes
EvaluateOneNoFallback(candidate, response) ==
    IF response.kind = "unavailable"
    THEN [raised |-> "ProviderError", appended |-> <<>>]
    ELSE IF response.kind = "malformed"
    THEN [raised |-> "JSONDecodeError", appended |-> <<>>]
    ELSE IF ~(EvalKeys \subseteq response.keys)
    THEN [raised |-> "KeyError", appended |-> <<>>]
    ELSE [raised |-> "none",
          appended |-> << [answer |-> candidate.answer,
                           metadata |-> candidate.metadata,
                           relevance_score |-> response.relevance_score,
                           reasoning |-> response.reasoning,
                           should_use |-> response.should_use] >>]

\* the loop body with the model call inside a try that catches everything:
\* an unavailable provider is recorded like invalid JSON
EvaluateOneSwallow(candidate, response) ==
    IF response.kind \in {"unavailable", "malformed"}
    THEN [raised |-> "none",
          appended |-> << [answer |-> candidate.answer,
                           metadata |-> candidate.metadata,
                           relevance_score |-> FailedScore,
                           reasoning |-> <<"Evaluation failed">>,
                           should_use |-> FALSE] >>]
    ELSE IF ~(EvalKeys \subseteq response.keys)
    THEN [raised |-> "KeyError", appended |-> <<>>]
    ELSE [raised |-> "none",
          appended |-> << [answer |-> candidate.answer,
                           metadata |-> candidate.metadata,
                           relevance_score |-> response.relevance_score,
                           reasoning |-> response.reasoning,
                           should_use |-> response.should_use] >>]

\* what the body of the for loop of _evaluate_candidates does with one
\* response: the exception it lets escape ("none" when it appends) and the
\* evaluation it appends
EvaluateOne(candidate, response) ==
    IF response.kind = "unavailable"
    THEN [raised |-> "ProviderError", appended |-> <<>>]
    ELSE IF response.kind = "malformed"
    THEN [raised |-> "none",
          appended |-> << [answer |-> candidate.answer,
                           metadata |-> candidate.metadata,
                           relevance_score |-> FailedScore,
                           reasoning |-> <<"Evaluation failed">>,
                           should_use |-> FALSE] >>]
    ELSE IF ~(EvalKeys \subseteq response.keys)
    THEN [raised |-> "KeyError", appended |-> <<>>]
    ELSE [raised |-> "none",
          appended |-> << [answer |-> candidate.answer,
                           metadata |-> candidate.metadata,
                           relevance_score |-> response.relevance_score,
                           reasoning |-> response.reasoning,
                           should_use |-> response.should_use] >>]

RECURSIVE MaxScan(_, _, _)
\* the scan of Python's max(): keep the current best, replace it only by a
\* strictly larger key
MaxScan(evals, i, best) ==
    IF i > Len(evals) THEN best
    ELSE IF evals[i].relevance_score > evals[best].relevance_score
         THEN MaxScan(evals, i + 1, i)
         ELSE MaxScan(evals, i + 1, best)

RECURSIVE MaxScanLast(_, _, _)
\* a scan that also replaces the best by an equal key
MaxScanLast(evals, i, best) ==
    IF i > Len(evals) THEN best
    ELSE IF evals[i].relevance_score >= evals[best].relevance_score
         THEN MaxScanLast(evals, i + 1, i)
         ELSE MaxScanLast(evals, i + 1, best)

\* the last of the equal maxima instead of the first
BestIndexLast(evals) == MaxScanLast(evals, 2, 1)

\* index of max(evaluations, key=lambda x: x['relevance_score']); the list
\* is not empty
BestIndex(evals) == MaxScan(evals, 2, 1)

\* an exclusive threshold
MeetsThresholdStrict(score, min_score) == score > min_score

\* if best_match['relevance_score'] >= min_relevance_score
MeetsThreshold(score, min_score) == score >= min_score

\* a PREPARED dictionary that takes the text of the first candidate
PreparedDecisionFirst(best, cands) ==
    [answer |-> cands[1].answer,
     source |-> "PREPARED",
     confidence |-> best.relevance_score,
     reasoning |-> best.reasoning,
     candidates_evaluated |-> Len(cands),
     metadata |-> best.metadata,
     used_contexts |-> 0]

\* the dictionary returned on the PREPARED branch
PreparedDecision(best, cands) ==
    [answer |-> best.answer,
     source |-> "PREPARED",
     confidence |-> best.relevance_score,
     reasoning |-> best.reasoning,
     candidates_evaluated |-> Len(cands),
     metadata |-> best.metadata,
     used_contexts |-> 0]

\* the f-string of the GENERATED branch
NoPerfectMatch(score) ==
    <<"No perfect match found (best: ">> \o IntToStr(score) \o <<"/10)">>

GeneratedReasoning(score) ==
    NoPerfectMatch(score)
      \o <<". Generated answer using your prepared materials as context.">>

\* the context string built by _generate_answer: the first three candidates,
\* each labelled with its position
GenerationContext(cands) ==
    LET used == Take(cands, ContextLimit)
    IN  [i \in 1..Len(used) |-> [label |-> i, text |-> used[i].answer]]

\* a GENERATED dictionary that reports the number of contexts as confidence
GeneratedDecisionOwnConfidence(best, content, cands) ==
    [answer |-> content,
     source |-> "GENERATED",
     confidence |-> Len(Take(cands, ContextLimit)),
     reasoning |-> GeneratedReasoning(best.relevance_score),
     candidates_evaluated |-> Len(cands),
     metadata |-> 0,
     used_contexts |-> Len(Take(cands, ContextLimit))]

\* the dictionary returned on the GENERATED branch
GeneratedDecision(best, content, cands) ==
    [answer |-> content,
     source |-> "GENERATED",
     confidence |-> best.relevance_score,
     reasoning |-> GeneratedReasoning(best.relevance_score),
     candidates_evaluated |-> Len(cands),
     metadata |-> 0,
     used_contexts |-> Len(Take(cands, ContextLimit))]

\* one call to an external service: the vector index with k, the judgment
\* model with a prompt about one answer, the generation model with a prompt
\* about a context
ExternalCall(service, k, answer, ctx) ==
    [service |-> service, k |-> k, answer |-> answer, context |-> ctx]

\* self.vectorstore.similarity_search(question, k=k)
IndexCall(k) == ExternalCall("index", k, "", <<>>)

\* a loop that walks the candidates from the last to the first
JudgeCallBackwards(cands, i) ==
    ExternalCall("judge", 0, cands[Len(cands) + 1 - i].answer, <<>>)

\* self.llm.invoke(prompt) in the i-th iteration of the loop of
\* _evaluate_candidates: the prompt holds the answer of the i-th candidate
JudgeCall(cands, i) == ExternalCall("judge", 0, cands[i].answer, <<>>)

\* self.creative_llm.invoke(prompt): the prompt holds the context
GeneratorCall(ctx) == ExternalCall("generator", 0, "", ctx)

\* best_match before step 3 has run
NoEvaluation ==
    [answer |-> "", metadata |-> 0, relevance_score |-> 0, reasoning |-> <<>>,
     should_use |-> FALSE]

\* no dictionary has been returned
NoDecision ==
    [answer |-> "", source |-> "NONE", confidence |-> 0, reasoning |-> <<>>,
     candidates_evaluated |-> 0, metadata |-> 0, used_contexts |-> 0]


(* ------------------- vector store: inputs and functions ----------------- *)

\* the texts that occur in document batches
BatchTexts == {StoryTexts[1], StoryTexts[2]}

RECURSIVE TextSeqs(_)
\* all sequences of batch texts of length at most n
TextSeqs(n) ==
    IF n = 0 THEN {<<>>}
    ELSE LET shorter == TextSeqs(n - 1)
         IN  shorter \cup { Append(q, t) : q \in {r \in shorter : Len(r) = n - 1},
                                            t \in BatchTexts }

\* the document batches callers pass: Documents whose metadata is their
\* position in the batch, so that equal texts stay distinguishable
Batches ==
    { [i \in 1..Len(ts) |-> [page_content |-> ts[i], metadata |-> i]]
        : ts \in TextSeqs(MaxBatch) }

\* hash(doc.page_content): the different texts of the model have different
\* hashes
ContentHash(text) ==
    1000 + (CHOOSE i \in 1..Len(StoryTexts) : StoryTexts[i] = text)

RECURSIVE DedupKeepLastLoop(_, _)
\* a deduplication in which the last document of each content wins
DedupKeepLastLoop(documents, i) ==
    IF i > Len(documents) THEN <<>>
    ELSE IF \E j \in (i + 1)..Len(documents) :
               ContentHash(documents[j].page_content)
                 = ContentHash(documents[i].page_content)
         THEN DedupKeepLastLoop(documents, i + 1)
         ELSE <<documents[i]>> \o DedupKeepLastLoop(documents, i + 1)

DeduplicateKeepLast(documents) == DedupKeepLastLoop(documents, 1)

\* no deduplication at all
DeduplicateNothing(documents) == documents

RECURSIVE DedupLoop(_, _, _, _)
\* the for loop of _deduplicate_documents
DedupLoop(documents, i, seen_content, unique_docs) ==
    IF i > Len(documents) THEN unique_docs
    ELSE LET content_hash == ContentHash(documents[i].page_content)
         IN  IF content_hash \notin seen_content
             THEN DedupLoop(documents, i + 1, seen_content \cup {content_hash},
                            Append(unique_docs, documents[i]))
             ELSE DedupLoop(documents, i + 1, seen_content, unique_docs)

\* _deduplicate_documents
deduplicate_documents(documents) == DedupLoop(documents, 1, {}, <<>>)

\* Chroma.from_documents(documents, persist_directory, collection_name):
\* opens the collection of that name at the location, creating it when it
\* does not exist, and adds the documents under fresh ids
ChromaFromDocuments(entries, documents) == entries \o documents

\* Chroma.add_documents: adds the documents under fresh ids
ChromaAddDocuments(entries, documents) == entries \o documents

\* an add that first drops the documents whose content is already stored
AddUniqueAgainstIndex(entries, documents) ==
    LET unique_docs == deduplicate_documents(documents)
        fresh == SelectSeq(unique_docs,
                   LAMBDA d : \A e \in DOMAIN entries :
                                 entries[e].page_content # d.page_content)
    IN  ChromaAddDocuments(entries, fresh)

\* the collection after add_documents on an initialized manager
AddToCollection(entries, documents) ==
    ChromaAddDocuments(entries, deduplicate_documents(documents))

\* a guard that never finds the manager uninitialized
IsNoneNever(handle) == FALSE

\* self.vectorstore is None
IsNone(handle) == handle = "None"

\* score_threshold values: None, or a number
NoThreshold == [supplied |-> FALSE, value |-> 0]
Threshold(v) == [supplied |-> TRUE, value |-> v]

\* the scores a backend reports (distances or similarities, scaled to
\* integers), and the thresholds callers pass
ScoreValues == {-1, 0, 1}
ScoreThresholds == {NoThreshold, Threshold(0), Threshold(1)}

\* the test "score_threshold is not None"
IsNotNone(score_threshold) == score_threshold.supplied

\* Python truthiness of the score_threshold argument: None and 0 are false
Truthy(score_threshold) ==
    score_threshold.supplied /\ score_threshold.value # 0

\* the list comprehension of similarity_search: the documents of the scored
\* answer whose score is >= the threshold, in the order of the answer
FilterByScore(docs, scores, value) ==
    LET keep == { i \in DOMAIN docs : scores[i] >= value }
        F[i \in 0..Len(docs)] ==
            IF i = 0 THEN <<>>
            ELSE IF i \in keep THEN Append(F[i - 1], docs[i]) ELSE F[i - 1]
    IN  F[Len(docs)]

\* what VectorStoreManager.similarity_search returns on an initialized
\* manager, given the scores the backend reports for the k nearest documents
SearchResult(entries, k, score_threshold, scores) ==
    IF Truthy(score_threshold)
    THEN FilterByScore(similarity_search(entries, k), scores, score_threshold.value)
    ELSE similarity_search(entries, k)

\* the record of the operation last invoked on the manager
StoreOp(name, documents, k, score_threshold) ==
    [name |-> name, documents |-> documents, k |-> k,
     score_threshold |-> score_threshold]


(* --------------------- retriever: inputs and functions ------------------ *)

\* the values of k callers pass to the retrieval methods
RetrieveKs == (1..MaxRetrieveK) \cup {DefaultFetchK + 1}

\* the values of fetch_k callers pass to mmr_retrieval
FetchKs == (1..MaxRetrieveK) \cup {DefaultFetchK}

\* one query sent to the vector index
IndexQuery(method, k, fetch_k, lambda_tenths) ==
    [method |-> method, k |-> k, fetch_k |-> fetch_k,
     lambda_mult |-> lambda_tenths]

RECURSIVE Arrangements(_, _)
\* the sequences of n different elements of the sequence docs
Arrangements(docs, n) ==
    IF n = 0 THEN {<<>>}
    ELSE UNION { { Append(q, docs[i]) :
                     i \in { j \in DOMAIN docs :
                               \A x \in DOMAIN q : q[x] # docs[j] } }
                 : q \in Arrangements(docs, n - 1) }

\* Chroma.max_marginal_relevance_search(query, k, fetch_k, lambda_mult):
\* fetches the fetch_k nearest documents and re-ranks them; it returns k of
\* them (all of them when fewer were fetched) in an order that depends on
\* the embeddings, and rejects no combination of k and fetch_k
MmrSelections(store, k, fetch_k) ==
    LET fetched == similarity_search(store, fetch_k)
    IN  Arrangements(fetched, Min(k, Len(fetched)))

\* the text the compressor extracts from a document
Extract(doc) ==
    [page_content |-> "extract", metadata |-> doc.metadata]

\* ContextualCompressionRetriever.get_relevant_documents: the k nearest
\* documents, each replaced by its extract or dropped by the compressor
Compress(docs, kept) ==
    LET F[i \in 0..Len(docs)] ==
            IF i = 0 THEN <<>>
            ELSE IF i \in kept THEN Append(F[i - 1], Extract(docs[i]))
            ELSE F[i - 1]
    IN  F[Len(docs)]

\* what one retrieval method does: the queries it sends, the exception it
\* raises ("none" otherwise) and the documents it returns
Retrieved(queries, docs) ==
    [queries |-> queries, error |-> "none", docs |-> docs]

\* basic_retrieval(query, k)
basic_retrieval(store, k) ==
    Retrieved(<<IndexQuery("similarity_search", k, 0, 0)>>,
              similarity_search(store, k))

\* mmr_retrieval(query, k, fetch_k, lambda_mult); sel is the re-ranked
\* answer of the index
mmr_retrieval(store, k, fetch_k, lambda_tenths, sel) ==
    Retrieved(<<IndexQuery("max_marginal_relevance_search", k, fetch_k,
                           lambda_tenths)>>,
              sel)

\* compressed_retrieval(query, k); kept are the documents the compressor
\* finds relevant
compressed_retrieval(store, k, kept) ==
    Retrieved(<<IndexQuery("as_retriever", k, 0, 0)>>,
              Compress(similarity_search(store, k), kept))

\* hybrid_retrieval(query, k, use_mmr, use_compression)
hybrid_retrieval(store, k, use_mmr, use_compression, sel, kept) ==
    IF use_compression THEN compressed_retrieval(store, k, kept)
    ELSE IF use_mmr
         THEN mmr_retrieval(store, k, DefaultFetchK, DefaultLambdaTenths, sel)
         ELSE basic_retrieval(store, k)

\* len(d.page_content) for the texts of the model
TextLength(text) ==
    IF text = "extract" THEN 5
    ELSE 100 + (CHOOSE i \in 1..Len(StoryTexts) : StoryTexts[i] = text)

RECURSIVE TotalLength(_)
\* sum(len(d.page_content) for d in docs)
TotalLength(docs) ==
    IF docs = <<>> THEN 0
    ELSE TextLength(docs[1].page_content) + TotalLength(Tail(docs))

\* the dictionary compare_retrieval_methods builds for one method
MethodSummary(docs) ==
    [docs |-> docs, num_docs |-> Len(docs), total_length |-> TotalLength(docs)]

\* the number of positions at which both lists hold the same content
OverlapByPosition(basic_docs, mmr_docs) ==
    Cardinality({ i \in DOMAIN basic_docs \cap DOMAIN mmr_docs :
                    basic_docs[i].page_content = mmr_docs[i].page_content })

\* len(basic_content & mmr_content)
Overlap(basic_docs, mmr_docs) ==
    Cardinality({ basic_docs[i].page_content : i \in DOMAIN basic_docs }
                  \cap { mmr_docs[i].page_content : i \in DOMAIN mmr_docs })

\* the dictionary returned by compare_retrieval_methods
Comparison(basic_docs, mmr_docs) ==
    [basic |-> MethodSummary(basic_docs),
     mmr |-> MethodSummary(mmr_docs),
     overlap |-> Overlap(basic_docs, mmr_docs)]

\* no comparison has been made
NoComparison == Comparison(<<>>, <<>>)

\* the record of the retrieval method last called
RetrieverOp(name, k, fetch_k) == [name |-> name, k |-> k, fetch_k |-> fetch_k]


(* --------------------- evaluator: inputs and functions ------------------ *)

\* document_loader numbers the documents 0, 1, 2, ...
DocIds == 0..MaxDocId

\* a metadata mapping, as its set of (key, value) pairs
Metadata(pairs) == pairs

\* the metadata of the documents given to the evaluator: with a doc_id, or
\* without one
Metadatas ==
    { Metadata({<<"doc_id", id>>}) : id \in DocIds } \cup { Metadata({}) }

\* the retrieved documents given to the evaluator
EvalDocs == { [page_content |-> "text", metadata |-> md] : md \in Metadatas }

RECURSIVE ListsOver(_, _)
\* the lists of at most n elements of S
ListsOver(S, n) ==
    IF n = 0 THEN {<<>>}
    ELSE LET shorter == ListsOver(S, n - 1)
         IN  shorter \cup { Append(q, x) : q \in { r \in shorter : Len(r) = n - 1 },
                                           x \in S }

\* the values of k given to evaluate_retrieval
EvalKs == -1..MaxEvalK

\* dict.get(key, default)
Get(metadata, key, default) ==
    IF \E pair \in metadata : pair[1] = key
    THEN (CHOOSE pair \in metadata : pair[1] = key)[2]
    ELSE default

\* s[:k]
SliceTo(s, k) ==
    IF k >= 0 THEN Take(s, k)
    ELSE SubSeq(s, 1, IF Len(s) + k > 0 THEN Len(s) + k ELSE 0)

\* the members of a list
SetOf(s) == { s[i] : i \in DOMAIN s }

\* a number as a quotient of two integers, the second positive
Frac(n, d) == [num |-> n, den |-> d]

\* the int 0 the code returns in place of a quotient
Zero == Frac(0, 1)

FracAdd(a, b) == Frac(a.num * b.den + b.num * a.den, a.den * b.den)

FracMul(a, b) == Frac(a.num * b.num, a.den * b.den)

\* a / b for b > 0
FracDiv(a, b) == Frac(a.num * b.den, a.den * b.num)

FracLeq(a, b) == a.num * b.den <= b.num * a.den

FracEq(a, b) == a.num * b.den = b.num * a.den

\* retrieved_ids = [doc.metadata.get('doc_id', -1) for doc in retrieved_docs[:k]]
RetrievedIds(retrieved_docs, k) ==
    LET first == SliceTo(retrieved_docs, k)
    IN  [i \in DOMAIN first |-> Get(first[i].metadata, "doc_id", MissingDocId)]

\* len of the list of retrieved ids that are relevant, repetitions counted
RelevantRetrievedWithRepeats(retrieved_ids, relevant_doc_ids) ==
    Cardinality({ i \in DOMAIN retrieved_ids :
                    retrieved_ids[i] \in SetOf(relevant_doc_ids) })

\* relevant_retrieved = len(set(retrieved_ids) & set(relevant_doc_ids))
RelevantRetrieved(retrieved_ids, relevant_doc_ids) ==
    Cardinality(SetOf(retrieved_ids) \cap SetOf(relevant_doc_ids))

\* relevant_retrieved / len(retrieved_ids)
PrecisionOverRetrieved(relevant_retrieved, retrieved_ids, k) ==
    IF k > 0 /\ Len(retrieved_ids) > 0
    THEN Frac(relevant_retrieved, Len(retrieved_ids))
    ELSE Zero

\* precision = relevant_retrieved / k if k > 0 else 0
Precision(relevant_retrieved, retrieved_ids, k) ==
    IF k > 0 THEN Frac(relevant_retrieved, k) ELSE Zero

\* relevant_retrieved / len(relevant_doc_ids) without the test of the
\* length: the quotient by 0 is the ZeroDivisionError
RecallUnguarded(relevant_retrieved, relevant_doc_ids) ==
    Frac(relevant_retrieved, Len(relevant_doc_ids))

\* recall = relevant_retrieved / len(relevant_doc_ids)
\*          if len(relevant_doc_ids) > 0 else 0
Recall(relevant_retrieved, relevant_doc_ids) ==
    IF Len(relevant_doc_ids) > 0
    THEN Frac(relevant_retrieved, Len(relevant_doc_ids))
    ELSE Zero

\* f1 = 2 * (precision * recall) / (precision + recall)
\*      if (precision + recall) > 0 else 0
F1(precision, recall) ==
    IF FracAdd(precision, recall).num > 0
    THEN FracDiv(FracMul(Frac(2, 1), FracMul(precision, recall)),
                 FracAdd(precision, recall))
    ELSE Zero

\* a loop without the break: the last relevant id sets mrr
MrrLastHit(retrieved_ids, relevant_doc_ids) ==
    LET hits == { i \in DOMAIN retrieved_ids :
                    retrieved_ids[i] \in SetOf(relevant_doc_ids) }
    IN  IF hits = {} THEN Zero
        ELSE Frac(1, CHOOSE i \in hits : \A j \in hits : i >= j)

\* the loop over enumerate(retrieved_ids, 1) that stops at the first
\* relevant id
Mrr(retrieved_ids, relevant_doc_ids) ==
    LET hits == { i \in DOMAIN retrieved_ids :
                    retrieved_ids[i] \in SetOf(relevant_doc_ids) }
    IN  IF hits = {} THEN Zero
        ELSE Frac(1, CHOOSE i \in hits : \A j \in hits : i <= j)

\* evaluate_retrieval(retrieved_docs, relevant_doc_ids, k)
evaluate_retrieval(retrieved_docs, relevant_doc_ids, k) ==
    LET retrieved_ids == RetrievedIds(retrieved_docs, k)
        relevant_retrieved == RelevantRetrieved(retrieved_ids, relevant_doc_ids)
        precision == Precision(relevant_retrieved, retrieved_ids, k)
        recall == Recall(relevant_retrieved, relevant_doc_ids)
    IN  [precision_at_k |-> precision,
         recall_at_k |-> recall,
         f1_score |-> F1(precision, recall),
         mrr |-> Mrr(retrieved_ids, relevant_doc_ids),
         num_retrieved |-> Len(retrieved_ids),
         num_relevant |-> Len(relevant_doc_ids)]

\* the arguments of one evaluate_retrieval call
EvalCall(retrieved_docs, relevant_doc_ids, k) ==
    [retrieved_docs |-> retrieved_docs,
     relevant_doc_ids |-> relevant_doc_ids,
     k |-> k]

\* the calls of the model
EvalCalls ==
    { EvalCall(docs, ids, k) : docs \in ListsOver(EvalDocs, MaxRetrieved),
                               ids \in ListsOver(DocIds, MaxRelevant),
                               k \in EvalKs }

\* nothing has been returned
NoMetrics == evaluate_retrieval(<<>>, <<>>, 0)


(* ---------------- evaluator: runs over a batch of questions ------------- *)

\* texts are lists of words; len(word) for the words of the model
WordLength(w) ==
    CASE w = "Not" -> 3 [] w = "not" -> 3 [] w = "sure" -> 4
      [] w = "indexes" -> 7 [] w = "cut" -> 3 [] w = "latency" -> 7
      [] w = "query" -> 5 [] w = "time" -> 4

RECURSIVE TextLen(_)
\* len(answer): the words and the blanks between them
TextLen(text) ==
    IF text = <<>> THEN 0
    ELSE IF Len(text) = 1 THEN WordLength(text[1])
    ELSE WordLength(text[1]) + 1 + TextLen(Tail(text))

\* str.lower() on one word
LowerWord(w) == IF w = "Not" THEN "not" ELSE w

\* answer.lower()
Lower(text) == [i \in DOMAIN text |-> LowerWord(text[i])]

\* set(text.split())
WordSet(text) == { text[i] : i \in DOMAIN text }

\* the uncertainty phrases that can occur in the texts of the model
UncertaintyPhrases == { <<"not", "sure">> }

\* " ".join([doc.page_content for doc in context])
RECURSIVE JoinContents(_)
JoinContents(docs) ==
    IF docs = <<>> THEN <<>> ELSE docs[1].page_content \o JoinContents(Tail(docs))

\* the value of an absent argument or key
None == <<>>

\* _simple_similarity(text1, text2)
simple_similarity(text1, text2) ==
    LET words1 == WordSet(Lower(text1))
        words2 == WordSet(Lower(text2))
    IN  IF words1 \cup words2 # {}
        THEN Frac(Cardinality(words1 \cap words2), Cardinality(words1 \cup words2))
        ELSE Zero

\* evaluate_answer_quality(question, answer, ground_truth, context); keys
\* holds the optional keys the dictionary got
evaluate_answer_quality(question, answer, ground_truth, context) ==
    LET answer_words == WordSet(Lower(answer))
        context_words == WordSet(Lower(JoinContents(context)))
    IN  [answer_length |-> TextLen(answer),
         answer_words |-> Len(answer),
         expresses_uncertainty |->
            \E phrase \in UncertaintyPhrases : Contains(Lower(answer), phrase),
         keys |-> (IF context # <<>> THEN {"context_overlap_ratio"} ELSE {})
                    \cup (IF ground_truth # None
                          THEN {"ground_truth_similarity"} ELSE {}),
         context_overlap_ratio |->
            IF context # <<>> /\ answer_words # {}
            THEN Frac(Cardinality(answer_words \cap context_words),
                      Cardinality(answer_words))
            ELSE Zero,
         ground_truth_similarity |->
            IF ground_truth # None
            THEN simple_similarity(answer, ground_truth) ELSE Zero]

\* one entry of qa_results, as QASystem.ask returns it
QaResult(question, answer, source_documents) ==
    [question |-> question,
     answer |-> answer,
     source_documents |-> source_documents,
     metadata |-> [num_sources |-> Len(source_documents)]]

\* one entry of eval_dataset with the keys it holds
EvalItem(keys, ground_truth_answer, relevant_doc_ids) ==
    [keys |-> keys,
     ground_truth_answer |-> ground_truth_answer,
     relevant_doc_ids |-> relevant_doc_ids]

\* eval_item.get(key) and eval_item.get(key, [])
ItemGet(eval_item, key) ==
    IF key \notin eval_item.keys THEN None
    ELSE IF key = "relevant_doc_ids" THEN eval_item.relevant_doc_ids
    ELSE eval_item.ground_truth_answer

\* two retrieved chunks: one numbered by the loader, one without doc_id
SampleDocs ==
    << [page_content |-> <<"indexes", "cut", "query", "time">>,
        metadata |-> Metadata({<<"doc_id", 0>>})],
       [page_content |-> <<"latency">>, metadata |-> Metadata({})] >>

SampleResults ==
    << QaResult(<<"q1">>, <<"indexes", "cut", "latency">>, SampleDocs),
       QaResult(<<"q2">>, <<"Not", "sure">>, <<>>) >>

SampleItems ==
    << EvalItem({"question", "ground_truth_answer", "relevant_doc_ids"},
                <<"indexes", "cut", "time">>, <<0>>),
       EvalItem({"question"}, None, None) >>

\* the arguments of one evaluate_system_performance call
RunInput(qa_results, eval_dataset) ==
    [qa_results |-> qa_results, eval_dataset |-> eval_dataset]

\* the batches the evaluator is run on: a dataset shorter than the results,
\* a dataset longer than the results whose first item has no ground truth,
\* and no dataset
RunInputs ==
    { RunInput(SampleResults, <<SampleItems[1]>>),
      RunInput(<<SampleResults[2]>>, <<SampleItems[2], SampleItems[1]>>),
      RunInput(<<SampleResults[1]>>, None) }

RECURSIVE FracSum(_)
FracSum(fs) == IF fs = <<>> THEN Zero ELSE FracAdd(fs[1], FracSum(Tail(fs)))

\* np.mean of a non-empty list
Mean(fs) == FracDiv(FracSum(fs), Frac(Len(fs), 1))

\* datetime.now(): the second and the position within the second
Now(second, micro) == [second |-> second, micro |-> micro]

\* the dictionary evaluate_system_performance builds; keys holds
\* "avg_retrieval" when that key was set
evaluate_system_performance(qa_results, eval_dataset, now) ==
    LET n == IF eval_dataset # None THEN Min(Len(qa_results), Len(eval_dataset))
             ELSE 0
        retrieval_metrics ==
            [i \in 1..n |->
                evaluate_retrieval(qa_results[i].source_documents,
                                   ItemGet(eval_dataset[i], "relevant_doc_ids"),
                                   DefaultEvalK)]
        answer_metrics ==
            [i \in 1..n |->
                evaluate_answer_quality(qa_results[i].question,
                                        qa_results[i].answer,
                                        ItemGet(eval_dataset[i], "ground_truth_answer"),
                                        qa_results[i].source_documents)]
    IN  [timestamp |-> now,
         num_questions |-> Len(qa_results),
         retrieval_metrics |-> retrieval_metrics,
         answer_metrics |-> answer_metrics,
         latency_metrics |-> {},
         keys |-> IF retrieval_metrics # <<>> THEN {"avg_retrieval"} ELSE {},
         avg_retrieval |->
            IF retrieval_metrics # <<>>
            THEN [precision |-> Mean([i \in 1..n |-> retrieval_metrics[i].precision_at_k]),
                  recall |-> Mean([i \in 1..n |-> retrieval_metrics[i].recall_at_k]),
                  f1 |-> Mean([i \in 1..n |-> retrieval_metrics[i].f1_score]),
                  mrr |-> Mean([i \in 1..n |-> retrieval_metrics[i].mrr])]
            ELSE [precision |-> Zero, recall |-> Zero, f1 |-> Zero, mrr |-> Zero]]

\* a history that puts the new record first
PrependRecord(history, metrics) == <<metrics>> \o history

\* self.evaluation_history.append(metrics)
AppendRecord(history, metrics) == Append(history, metrics)

\* a run that records the evaluation only once it has been saved
HistoryAfterSavedRun(history, metrics, saved) ==
    IF saved THEN AppendRecord(history, metrics) ELSE history

\* the history after lines 189-190: the append comes before the save and
\* nothing undoes it when the save raises
HistoryAfterRun(history, metrics, saved) == AppendRecord(history, metrics)

\* _save_evaluation: json.dump into eval_<second>.json, which replaces a
\* file written earlier within the same second
WriteFile(files, second, metrics) ==
    [name \in DOMAIN files \cup {second} |->
        IF name = second THEN metrics ELSE files[name]]

\* the entry compare_experiments computes for one experiment with results
ExperimentSummary(results) ==
    [num_samples |-> Len(results),
     avg_answer_length |->
        Mean([i \in DOMAIN results |-> Frac(TextLen(results[i].answer), 1)]),
     avg_num_sources |->
        Mean([i \in DOMAIN results |-> Frac(results[i].metadata.num_sources, 1)])]
\* compare_experiments(experiment_results)
compare_experiments(experiment_results) ==
    [name \in DOMAIN experiment_results |->
        ExperimentSummary(experiment_results[name])]

\* the experiments compared: a baseline and one experiment
Experiments ==
    { [name \in {"baseline", "experiment_1"} |->
          IF name = "baseline" THEN baseline ELSE experiment]
        : baseline \in {SampleResults},
          experiment \in {<<SampleResults[1]>>, <<SampleResults[2]>>} }

\* the operation last called on the evaluator, with the arguments of a run
EvaluatorOp(name, run) == [name |-> name, run |-> run]

\* nothing has been returned by evaluate_system_performance,
\* evaluate_answer_quality or compare_experiments
NoRun == evaluate_system_performance(<<>>, None, Now(0, 0))
NoQuality == evaluate_answer_quality(<<>>, <<>>, None, <<>>)
NoExperiments == compare_experiments([name \in {"baseline", "experiment_1"} |-> <<SampleResults[2]>>])


(* ------------- practice session and concurrent calls: functions -------- *)

\* the index a practice session and two concurrent calls run against
ClientIndex == <<Doc(1), Doc(2)>>

\* the questions practised
PracticeQuestions == {"question-1", "question-2"}

\* how a call of answer_question ends: it returns a dictionary or raises
Returned(decision) == [pc |-> "returned", result |-> decision, error |-> "none"]
Raised(exception) == [pc |-> "raised", result |-> NoDecision, error |-> exception]

RECURSIVE EvaluateAll(_, _, _, _)
\* the loop of _evaluate_candidates from its i-th iteration on, given the
\* responses of the judgment model in call order: it stops at the first
\* exception
EvaluateAll(cands, responses, i, evals) ==
    IF i > Len(cands) \/ i > Len(responses)
    THEN [raised |-> "none", evaluations |-> evals]
    ELSE LET outcome == EvaluateOne(cands[i], responses[i])
         IN  IF outcome.raised # "none"
             THEN [raised |-> outcome.raised, evaluations |-> evals]
             ELSE EvaluateAll(cands, responses, i + 1, evals \o outcome.appended)

\* answer_question(question, top_k, min_relevance_score) run from its first
\* to its last line on the index store, given the responses of the judgment
\* model and, where it is asked, of the generation model
answer_question(store, k, m, responses, generation) ==
    LET cands == retrieve_candidates(store, k)
        evaluated == EvaluateAll(cands, responses, 1, <<>>)
    IN  IF evaluated.raised # "none" THEN Raised(evaluated.raised)
        ELSE IF evaluated.evaluations = <<>> THEN Raised("ValueError")
        ELSE LET best == evaluated.evaluations[BestIndex(evaluated.evaluations)]
             IN  IF MeetsThreshold(best.relevance_score, m)
                 THEN Returned(PreparedDecision(best, cands))
                 ELSE IF generation = <<>> \/ generation[1].kind = "unavailable"
                      THEN Raised("ProviderError")
                      ELSE Returned(GeneratedDecision(best, generation[1].content, cands))

\* one entry of session_history
SessionEntry(question, decision) == [question |-> question, result |-> decision]

\* a practice_question that records a call whatever its outcome
PracticeHistoryAlways(history, question, outcome) ==
    Append(history, SessionEntry(question, outcome.result))

\* session_history after practice_question(question): an exception of
\* answer_question leaves practice_question before the append
PracticeHistory(history, question, outcome) ==
    IF outcome.pc = "returned"
    THEN Append(history, SessionEntry(question, outcome.result))
    ELSE history

RECURSIVE SumConfidence(_)
\* sum(q['result']['confidence'] for q in self.session_history)
SumConfidence(history) ==
    IF history = <<>> THEN 0
    ELSE history[1].result.confidence + SumConfidence(Tail(history))

\* get_session_summary()
get_session_summary(history) ==
    LET total == Len(history)
        prepared == Cardinality({ i \in DOMAIN history :
                                    history[i].result.source = "PREPARED" })
    IN  [total_questions |-> total,
         prepared_answers_used |-> prepared,
         generated_answers |-> total - prepared,
         avg_confidence |->
            IF total > 0 THEN Frac(SumConfidence(history), total) ELSE Zero,
         prepared_percentage |->
            IF total > 0 THEN Frac(prepared * 100, total) ELSE Zero]

\* where a practice session is: idle, inside practice_question(question),
\* or just back from get_session_summary
SessionAt(at, question) == [at |-> at, question |-> question]

\* one practice_question call with the way its answer_question ended
PracticeCall(question, outcome) == [question |-> question, outcome |-> outcome]

\* the two calls made at the same time
Threads == {1, 2}

\* locals kept in one place for all calls, as attributes of the assistant
\* would be
SharedFrame(t) == 1

\* candidates and evaluations are local variables: every call has its own
OwnFrame(t) == t

\* the values of top_k the two calls pass
ConcurrentTopKs == 1..Len(ClientIndex)

\* no candidate is being judged
NoCandidate == [answer |-> "", metadata |-> 0]

\* a call that has not started; received are the judgment responses the
\* call got, pending is the candidate whose judgment it waits for, and
\* overlapped tells whether it took a step while the other call was running
IdleThread ==
    [pc |-> "idle", top_k |-> 0, min_relevance_score |-> 0,
     pending |-> NoCandidate, best_match |-> NoEvaluation, context |-> <<>>,
     received |-> <<>>, generation_output |-> <<>>, result |-> NoDecision,
     error |-> "none", overlapped |-> FALSE]

\* the locals of a call: candidates, evaluations and the number of loop
\* iterations done
Frame(cands, evals, done) ==
    [candidates |-> cands, evaluations |-> evals, done |-> done]

(* ------------------------------- state --------------------------------- *)

VARIABLES
    vectorstore,          \* the documents of the index, nearest first
    pc,                   \* position of the answer_question call
    top_k,                \* argument of the call
    min_relevance_score,  \* argument of the call
    candidates,           \* local list of answer_question
    evaluations,          \* local list of _evaluate_candidates
    raw_outputs,          \* the judgment responses received, in call order
    best_match,           \* local of answer_question, NoEvaluation before step 3
    context,              \* the context given to the generation model
    generation_output,    \* the generation response received, if any
    result,               \* the dictionary returned, NoDecision before
    error,                \* the exception that left answer_question
    external_calls,       \* the calls made to the external services, in order
    persisted,            \* a collection exists at the persist location
    collection,           \* the entries of the persisted collection
    manager_vectorstore,  \* self.vectorstore of the VectorStoreManager
    vs_op,                \* the operation last invoked on the manager
    vs_error,             \* the exception it raised, "none" otherwise
    vs_result,            \* the documents similarity_search returned
    vs_calls,             \* the Chroma calls the operation made
    vs_scores,            \* the scores the backend reported to the search
    r_op,                 \* the retrieval method last called
    r_queries,            \* the queries it sent to the vector index
    r_error,              \* the exception it raised, "none" otherwise
    r_docs,               \* the documents it returned
    r_comparison,         \* the dictionary it returned, if it compares
    ev_pc,                \* position of the evaluate_retrieval call
    ev_call,              \* its arguments
    ev_metrics,           \* the dictionary it returned
    evaluation_history,   \* QAEvaluator.evaluation_history
    eval_files,           \* the files of output_dir, by the second in their name
    ev_now,               \* the last reading of datetime.now()
    ev_op,                \* the operation last called on the evaluator
    ev_error,             \* the exception it raised, "none" otherwise
    ev_run,               \* what evaluate_system_performance returned
    ev_quality,           \* what evaluate_answer_quality returned
    ev_experiments,       \* what compare_experiments returned
    session_pc,           \* position of the practice_question call
    session_history,      \* InterviewPracticeSession.session_history
    session_log,          \* the practice_question calls made, with their outcome
    session_summary,      \* what get_session_summary returned last
    thread,               \* the state of each of two concurrent calls
    frame                 \* the local lists of the calls

assistant_vars ==
    <<vectorstore, pc, top_k, min_relevance_score, candidates,
      evaluations, raw_outputs, best_match, context, generation_output,
      result, error, external_calls>>

store_vars ==
    <<persisted, collection, manager_vectorstore, vs_op, vs_error, vs_result,
      vs_calls, vs_scores>>

retriever_vars == <<r_op, r_queries, r_error, r_docs, r_comparison>>

run_vars ==
    <<evaluation_history, eval_files, ev_now, ev_op, ev_error, ev_run,
      ev_quality, ev_experiments>>

evaluator_vars == <<ev_pc, ev_call, ev_metrics, run_vars>>

session_vars == <<session_pc, session_history, session_log, session_summary>>

concurrent_vars == <<thread, frame>>

client_vars == <<session_vars, concurrent_vars>>

vars ==
    <<assistant_vars, store_vars, retriever_vars, evaluator_vars, client_vars>>

\* QAEvaluator(): an empty history; nothing has been called
RunsInit ==
    /\ evaluation_history = <<>>
    /\ eval_files = <<>>
    /\ ev_now = Now(0, 0)
    /\ ev_op = EvaluatorOp("init", RunInput(<<>>, None))
    /\ ev_error = "none"
    /\ ev_run = NoRun
    /\ ev_quality = NoQuality
    /\ ev_experiments = NoExperiments

\* the evaluator has not been called
EvaluatorIdle ==
    /\ ev_pc = "idle"
    /\ ev_call = EvalCall(<<>>, <<>>, 0)
    /\ ev_metrics = NoMetrics
    /\ RunsInit

\* no retrieval method has been called
RetrieverInit ==
    /\ r_op = RetrieverOp("init", 0, 0)
    /\ r_queries = <<>>
    /\ r_error = "none"
    /\ r_docs = <<>>
    /\ r_comparison = NoComparison

\* no VectorStoreManager operation has run and nothing is persisted
StoreInit ==
    /\ persisted = FALSE
    /\ collection = <<>>
    /\ manager_vectorstore = "None"
    /\ vs_op = StoreOp("init", <<>>, 0, NoThreshold)
    /\ vs_error = "none"
    /\ vs_result = <<>>
    /\ vs_calls = <<>>
    /\ vs_scores = <<>>

\* no practice session has been used and no concurrent call started
ClientIdle ==
    /\ session_pc = SessionAt("idle", "")
    /\ session_history = <<>>
    /\ session_log = <<>>
    /\ session_summary = get_session_summary(<<>>)
    /\ thread = [t \in Threads |-> IdleThread]
    /\ frame = [t \in Threads |-> Frame(<<>>, <<>>, 0)]

\* no answer_question call is in progress
AssistantIdle ==
    /\ pc = "idle"
    /\ top_k = 0
    /\ min_relevance_score = 0
    /\ candidates = <<>>
    /\ evaluations = <<>>
    /\ raw_outputs = <<>>
    /\ best_match = NoEvaluation
    /\ context = <<>>
    /\ generation_output = <<>>
    /\ result = NoDecision
    /\ error = "none"
    /\ external_calls = <<>>

Init ==
    /\ vectorstore \in Stores
    /\ pc = "idle"
    /\ top_k = 0
    /\ min_relevance_score = 0
    /\ candidates = <<>>
    /\ evaluations = <<>>
    /\ raw_outputs = <<>>
    /\ best_match = NoEvaluation
    /\ context = <<>>
    /\ generation_output = <<>>
    /\ result = NoDecision
    /\ error = "none"
    /\ external_calls = <<>>
    /\ StoreInit
    /\ RetrieverInit
    /\ EvaluatorIdle
    /\ ClientIdle

(* ------------------------------ actions -------------------------------- *)

\* answer_question is called; step 1 retrieves the candidates
AnswerQuestion(k, m) ==
    /\ pc = "idle"
    /\ top_k' = k
    /\ min_relevance_score' = m
    /\ candidates' = retrieve_candidates(vectorstore, k)
    /\ external_calls' = Append(external_calls, IndexCall(k))
    /\ pc' = "evaluate"
    /\ UNCHANGED <<vectorstore, evaluations, raw_outputs, best_match, context,
                   generation_output, result, error>>
    /\ UNCHANGED <<store_vars, retriever_vars, evaluator_vars, client_vars>>

\* one iteration of the loop of _evaluate_candidates
EvaluateCandidate(response) ==
    /\ pc = "evaluate"
    /\ Len(raw_outputs) < Len(candidates)
    /\ LET outcome == EvaluateOne(candidates[Len(raw_outputs) + 1], response)
       IN  /\ raw_outputs' = Append(raw_outputs, response)
           /\ external_calls'
                = Append(external_calls, JudgeCall(candidates, Len(raw_outputs) + 1))
           /\ evaluations' = evaluations \o outcome.appended
           /\ IF outcome.raised = "none"
              THEN UNCHANGED <<pc, error>>
              ELSE pc' = "raised" /\ error' = outcome.raised
    /\ UNCHANGED <<vectorstore, top_k, min_relevance_score, candidates,
                   best_match, context, generation_output, result>>
    /\ UNCHANGED <<store_vars, retriever_vars, evaluator_vars, client_vars>>

\* steps 3 and 4: find the best match and decide
FindBestMatch ==
    /\ pc = "evaluate"
    /\ Len(raw_outputs) = Len(candidates)
    /\ IF evaluations = <<>>
       THEN \* max() of an empty list
            /\ pc' = "raised"
            /\ error' = "ValueError"
            /\ UNCHANGED <<best_match, context, result>>
       ELSE LET best == evaluations[BestIndex(evaluations)]
            IN  /\ best_match' = best
                /\ IF MeetsThreshold(best.relevance_score, min_relevance_score)
                   THEN /\ result' = PreparedDecision(best, candidates)
                        /\ pc' = "returned"
                        /\ UNCHANGED <<context, error>>
                   ELSE /\ context' = GenerationContext(candidates)
                        /\ pc' = "generate"
                        /\ UNCHANGED <<result, error>>
    /\ UNCHANGED <<vectorstore, top_k, min_relevance_score, candidates,
                   evaluations, raw_outputs, generation_output, external_calls>>
    /\ UNCHANGED <<store_vars, retriever_vars, evaluator_vars, client_vars>>

\* self.creative_llm.invoke(prompt) in _generate_answer and the return
GenerateAnswer(response) ==
    /\ pc = "generate"
    /\ generation_output' = <<response>>
    /\ external_calls' = Append(external_calls, GeneratorCall(context))
    /\ IF response.kind = "unavailable"
       THEN /\ pc' = "raised"
            /\ error' = "ProviderError"
            /\ UNCHANGED result
       ELSE /\ result' = GeneratedDecision(best_match, response.content, candidates)
            /\ pc' = "returned"
            /\ UNCHANGED error
    /\ UNCHANGED <<vectorstore, top_k, min_relevance_score, candidates,
                   evaluations, raw_outputs, best_match, context>>
    /\ UNCHANGED <<store_vars, retriever_vars, evaluator_vars, client_vars>>

Next ==
    \/ \E k \in 1..MaxTopK, m \in MinRelevanceScores : AnswerQuestion(k, m)
    \/ \E response \in JudgeResponses : EvaluateCandidate(response)
    \/ FindBestMatch
    \/ \E response \in GenerationResponses : GenerateAnswer(response)

Spec == Init /\ [][Next]_vars

\* the same call on wider index states, with few judgment responses
WideNext ==
    \/ \E k \in WideTopKs, m \in MinRelevanceScores : AnswerQuestion(k, m)
    \/ \E response \in FewJudgeResponses : EvaluateCandidate(response)
    \/ FindBestMatch
    \/ \E response \in GenerationResponses : GenerateAnswer(response)

WideStart ==
    /\ vectorstore \in WideStores
    /\ AssistantIdle /\ StoreInit /\ RetrieverInit /\ EvaluatorIdle /\ ClientIdle

WideSpec == WideStart /\ [][WideNext]_vars

(* ---------------------- practice session: actions ----------------------- *)

\* practice_question(question) is called and calls
\* answer_question(question) with the default top_k and
\* min_relevance_score; step 1 retrieves the candidates
PracticeQuestion(question) ==
    /\ session_pc.at # "practising"
    /\ pc = "idle"
    /\ Len(session_log) < MaxPractice
    /\ session_pc' = SessionAt("practising", question)
    /\ top_k' = DefaultTopK
    /\ min_relevance_score' = DefaultMinRelevanceScore
    /\ candidates' = retrieve_candidates(vectorstore, DefaultTopK)
    /\ external_calls' = Append(external_calls, IndexCall(DefaultTopK))
    /\ pc' = "evaluate"
    /\ UNCHANGED <<vectorstore, evaluations, raw_outputs, best_match, context,
                   generation_output, result, error>>
    /\ UNCHANGED <<session_history, session_log, session_summary>>
    /\ UNCHANGED <<store_vars, retriever_vars, evaluator_vars, concurrent_vars>>

\* answer_question returned or raised: practice_question appends the entry
\* and returns, or is left by the exception; the locals of the call are gone
PracticeReturns ==
    /\ session_pc.at = "practising"
    /\ pc \in {"returned", "raised"}
    /\ LET outcome == [pc |-> pc, result |-> result, error |-> error]
       IN  /\ session_history'
                = PracticeHistory(session_history, session_pc.question, outcome)
           /\ session_log'
                = Append(session_log, PracticeCall(session_pc.question, outcome))
    /\ session_pc' = SessionAt("idle", "")
    /\ pc' = "idle"
    /\ top_k' = 0
    /\ min_relevance_score' = 0
    /\ candidates' = <<>>
    /\ evaluations' = <<>>
    /\ raw_outputs' = <<>>
    /\ best_match' = NoEvaluation
    /\ context' = <<>>
    /\ generation_output' = <<>>
    /\ result' = NoDecision
    /\ error' = "none"
    /\ external_calls' = <<>>
    /\ UNCHANGED <<vectorstore, session_summary>>
    /\ UNCHANGED <<store_vars, retriever_vars, evaluator_vars, concurrent_vars>>

\* get_session_summary()
GetSessionSummary ==
    /\ session_pc.at # "practising"
    /\ session_summary' = get_session_summary(session_history)
    /\ session_pc' = SessionAt("summary", "")
    /\ UNCHANGED <<session_history, session_log>>
    /\ UNCHANGED <<assistant_vars, store_vars, retriever_vars, evaluator_vars,
                   concurrent_vars>>

SessionNext ==
    \/ \E question \in PracticeQuestions : PracticeQuestion(question)
    \/ \E response \in FewJudgeResponses : EvaluateCandidate(response)
    \/ FindBestMatch
    \/ \E response \in GenerationResponses : GenerateAnswer(response)
    \/ PracticeReturns
    \/ GetSessionSummary

\* a new session on an assistant over the client index
SessionStart ==
    /\ vectorstore = ClientIndex
    /\ AssistantIdle /\ StoreInit /\ RetrieverInit /\ EvaluatorIdle /\ ClientIdle

SessionSpec == SessionStart /\ [][SessionNext]_vars

(* ---------------------- concurrent calls: actions ----------------------- *)

\* the other call is between its first and its last step
OtherRunning(t) ==
    \E u \in Threads \ {t} : thread[u].pc \notin {"idle", "returned", "raised"}

\* call t takes a step that leaves it as the record next
ThreadStep(t, next) ==
    thread' = [thread EXCEPT
                 ![t] = [next EXCEPT
                           !.overlapped = thread[t].overlapped \/ OtherRunning(t)]]

\* call t starts: answer_question(question, k, m), step 1
AnswerQuestionIn(t, k, m) ==
    /\ thread[t].pc = "idle"
    /\ frame' = [frame EXCEPT
                   ![OwnFrame(t)] = Frame(retrieve_candidates(vectorstore, k), <<>>, 0)]
    /\ ThreadStep(t, [thread[t] EXCEPT !.pc = "evaluate", !.top_k = k,
                                        !.min_relevance_score = m])
    /\ UNCHANGED <<assistant_vars, store_vars, retriever_vars, evaluator_vars,
                   session_vars>>

\* the loop of _evaluate_candidates formats the prompt of the next
\* candidate and sends it to the judgment model
SendToJudge(t) ==
    LET f == frame[OwnFrame(t)]
    IN  /\ thread[t].pc = "evaluate"
        /\ f.done < Len(f.candidates)
        /\ ThreadStep(t, [thread[t] EXCEPT !.pc = "judging",
                                            !.pending = f.candidates[f.done + 1]])
        /\ UNCHANGED frame
        /\ UNCHANGED <<assistant_vars, store_vars, retriever_vars, evaluator_vars,
                       session_vars>>

\* the judgment model answers call t: the rest of the loop body
ReceiveJudgment(t, response) ==
    LET f == frame[OwnFrame(t)]
        outcome == EvaluateOne(thread[t].pending, response)
    IN  /\ thread[t].pc = "judging"
        /\ frame' = [frame EXCEPT
                       ![OwnFrame(t)] = Frame(f.candidates,
                                              f.evaluations \o outcome.appended,
                                              f.done + 1)]
        /\ ThreadStep(t,
              [thread[t] EXCEPT
                 !.received = Append(thread[t].received, response),
                 !.pending = NoCandidate,
                 !.pc = IF outcome.raised = "none" THEN "evaluate" ELSE "raised",
                 !.error = outcome.raised])
        /\ UNCHANGED <<assistant_vars, store_vars, retriever_vars, evaluator_vars,
                       session_vars>>

\* step 3 of call t: max() over its evaluations
FindBestMatchIn(t) ==
    LET f == frame[OwnFrame(t)]
    IN  /\ thread[t].pc = "evaluate"
        /\ f.done >= Len(f.candidates)
        /\ IF f.evaluations = <<>>
           THEN ThreadStep(t, [thread[t] EXCEPT !.pc = "raised",
                                                !.error = "ValueError"])
           ELSE ThreadStep(t, [thread[t] EXCEPT
                                 !.pc = "decide",
                                 !.best_match = f.evaluations[BestIndex(f.evaluations)]])
        /\ UNCHANGED frame
        /\ UNCHANGED <<assistant_vars, store_vars, retriever_vars, evaluator_vars,
                       session_vars>>

\* step 4 of call t: return the prepared answer or build the context
DecideIn(t) ==
    LET f == frame[OwnFrame(t)]
        best == thread[t].best_match
    IN  /\ thread[t].pc = "decide"
        /\ IF MeetsThreshold(best.relevance_score, thread[t].min_relevance_score)
           THEN ThreadStep(t, [thread[t] EXCEPT
                                 !.pc = "returned",
                                 !.result = PreparedDecision(best, f.candidates)])
           ELSE ThreadStep(t, [thread[t] EXCEPT
                                 !.pc = "generate",
                                 !.context = GenerationContext(f.candidates)])
        /\ UNCHANGED frame
        /\ UNCHANGED <<assistant_vars, store_vars, retriever_vars, evaluator_vars,
                       session_vars>>

\* the generation model answers call t, which returns or raises
GenerateAnswerIn(t, response) ==
    LET f == frame[OwnFrame(t)]
    IN  /\ thread[t].pc = "generate"
        /\ IF response.kind = "unavailable"
           THEN ThreadStep(t, [thread[t] EXCEPT
                                 !.generation_output = <<response>>,
                                 !.pc = "raised",
                                 !.error = "ProviderError"])
           ELSE ThreadStep(t, [thread[t] EXCEPT
                                 !.generation_output = <<response>>,
                                 !.pc = "returned",
                                 !.result = GeneratedDecision(thread[t].best_match,
                                                              response.content,
                                                              f.candidates)])
        /\ UNCHANGED frame
        /\ UNCHANGED <<assistant_vars, store_vars, retriever_vars, evaluator_vars,
                       session_vars>>

ConcurrentNext ==
    \E t \in Threads :
        \/ \E k \in ConcurrentTopKs : AnswerQuestionIn(t, k, DefaultMinRelevanceScore)
        \/ SendToJudge(t)
        \/ \E response \in FewJudgeResponses : ReceiveJudgment(t, response)
        \/ FindBestMatchIn(t)
        \/ DecideIn(t)
        \/ \E response \in GenerationResponses : GenerateAnswerIn(t, response)

\* two calls are about to be made on one assistant over the client index
ConcurrentStart ==
    /\ vectorstore = ClientIndex
    /\ AssistantIdle /\ StoreInit /\ RetrieverInit /\ EvaluatorIdle /\ ClientIdle

ConcurrentSpec == ConcurrentStart /\ [][ConcurrentNext]_vars

(* ----------------------- vector store: actions -------------------------- *)

\* VectorStoreManager(...): a new manager on the same persist location
ConstructManager ==
    /\ manager_vectorstore' = "None"
    /\ vs_op' = StoreOp("init", <<>>, 0, NoThreshold)
    /\ vs_error' = "none"
    /\ vs_result' = <<>>
    /\ vs_calls' = <<>>
    /\ vs_scores' = <<>>
    /\ UNCHANGED <<persisted, collection>>
    /\ UNCHANGED <<assistant_vars, retriever_vars, evaluator_vars, client_vars>>

\* create_vectorstore(documents)
CreateVectorstore(documents) ==
    LET unique_docs == deduplicate_documents(documents)
    IN  /\ Len(collection) + Len(unique_docs) <= MaxEntries
        /\ collection' = ChromaFromDocuments(collection, unique_docs)
        /\ persisted' = TRUE
        /\ manager_vectorstore' = "Chroma"
        /\ vs_op' = StoreOp("create", documents, 0, NoThreshold)
        /\ vs_error' = "none"
        /\ vs_result' = <<>>
        /\ vs_calls' = <<"Chroma.from_documents">>
        /\ vs_scores' = <<>>
        /\ UNCHANGED <<assistant_vars, retriever_vars, evaluator_vars, client_vars>>

\* load_vectorstore(): the Chroma constructor opens the collection at the
\* persist location and creates an empty one when none exists
LoadVectorstore ==
    /\ persisted' = TRUE
    /\ manager_vectorstore' = "Chroma"
    /\ vs_op' = StoreOp("load", <<>>, 0, NoThreshold)
    /\ vs_error' = "none"
    /\ vs_result' = <<>>
    /\ vs_calls' = <<"Chroma">>
    /\ vs_scores' = <<>>
    /\ UNCHANGED collection
    /\ UNCHANGED <<assistant_vars, retriever_vars, evaluator_vars, client_vars>>

\* add_documents(documents)
AddDocuments(documents) ==
    /\ vs_op' = StoreOp("add", documents, 0, NoThreshold)
    /\ vs_result' = <<>>
    /\ vs_scores' = <<>>
    /\ IF IsNone(manager_vectorstore)
       THEN /\ vs_error' = "ValueError"
            /\ vs_calls' = <<>>
            /\ UNCHANGED collection
       ELSE /\ Len(AddToCollection(collection, documents)) <= MaxEntries
            /\ collection' = AddToCollection(collection, documents)
            /\ vs_error' = "none"
            /\ vs_calls' = <<"Chroma.add_documents">>
    /\ UNCHANGED <<persisted, manager_vectorstore>>
    /\ UNCHANGED <<assistant_vars, retriever_vars, evaluator_vars, client_vars>>

\* similarity_search(query, k, score_threshold); scores are the scores the
\* backend reports for the k nearest documents, nearest first
SimilaritySearch(k, score_threshold, scores) ==
    /\ vs_op' = StoreOp("search", <<>>, k, score_threshold)
    /\ IF IsNone(manager_vectorstore)
       THEN /\ vs_error' = "ValueError"
            /\ vs_result' = <<>>
            /\ vs_calls' = <<>>
            /\ vs_scores' = <<>>
       ELSE /\ Len(scores) = Len(similarity_search(collection, k))
            /\ vs_error' = "none"
            /\ vs_result' = SearchResult(collection, k, score_threshold, scores)
            /\ vs_scores' = scores
            /\ vs_calls' = IF Truthy(score_threshold)
                           THEN <<"Chroma.similarity_search_with_score">>
                           ELSE <<"Chroma.similarity_search">>
    /\ UNCHANGED <<persisted, collection, manager_vectorstore>>
    /\ UNCHANGED <<assistant_vars, retriever_vars, evaluator_vars, client_vars>>

\* the score lists a backend can report for at most n documents
ScoreLists(n) ==
    UNION { [1..m -> ScoreValues] : m \in 0..n }

StoreNext ==
    \/ ConstructManager
    \/ \E documents \in Batches : CreateVectorstore(documents)
    \/ LoadVectorstore
    \/ \E documents \in Batches : AddDocuments(documents)
    \/ \E k \in 1..MaxSearchK, t \in ScoreThresholds, scores \in ScoreLists(MaxSearchK) :
          SimilaritySearch(k, t, scores)

\* the judgment engine stays idle while the manager is operated
StoreStart ==
    /\ vectorstore = <<>>
    /\ AssistantIdle /\ StoreInit /\ RetrieverInit /\ EvaluatorIdle /\ ClientIdle

StoreSpec == StoreStart /\ [][StoreNext]_vars

(* ------------------------ vocabulary of the claims ---------------------- *)

\* the relevance scores of the evaluated candidates
EvaluatedScores == { evaluations[i].relevance_score : i \in DOMAIN evaluations }

\* the largest relevance score among the evaluated candidates
TopScore == CHOOSE s \in EvaluatedScores : \A t \in EvaluatedScores : t <= s

\* the earliest position in retrieval order that holds the largest score
FirstTop ==
    CHOOSE i \in DOMAIN evaluations :
        /\ evaluations[i].relevance_score = TopScore
        /\ \A j \in 1..(i - 1) : evaluations[j].relevance_score # TopScore

\* the response is not valid JSON
InvalidJson(r) == r.kind = "malformed"

\* the response is valid JSON without one of the three keys
MissingKey(r) == r.kind = "json" /\ r.keys # EvalKeys

\* the response is a complete JSON evaluation
ValidEvaluation(r) == r.kind = "json" /\ r.keys = EvalKeys

\* the evaluation recorded for a response that could not be parsed
IsFailedEvaluation(e) ==
    /\ e.relevance_score = 0
    /\ e.reasoning = <<"Evaluation failed">>
    /\ e.should_use = FALSE

\* a language-model call of this question found the provider unavailable
ProviderFailed ==
    \/ \E i \in DOMAIN raw_outputs : raw_outputs[i].kind = "unavailable"
    \/ \E i \in DOMAIN generation_output : generation_output[i].kind = "unavailable"

\* the decimal text of the scores, written out
ScoreText(n) ==
    CASE n = 0 -> <<"0">> [] n = 1 -> <<"1">> [] n = 2 -> <<"2">>
      [] n = 3 -> <<"3">> [] n = 4 -> <<"4">> [] n = 5 -> <<"5">>
      [] n = 6 -> <<"6">> [] n = 7 -> <<"7">> [] n = 8 -> <<"8">>
      [] n = 9 -> <<"9">> [] n = 10 -> <<"1", "0">>

(* -------------------------------- claims -------------------------------- *)

\* C1: with at least one candidate, a returned Decision has source PREPARED
\* exactly when the largest relevance score is >= min_relevance_score and
\* GENERATED exactly when it is below; equality gives PREPARED.
C1_ThresholdInclusive ==
    (pc = "returned" /\ Len(candidates) >= 1) =>
        /\ result.source = "PREPARED" <=> TopScore >= min_relevance_score
        /\ result.source = "GENERATED" <=> TopScore < min_relevance_score

\* C1 witness: a Decision returned as PREPARED with the best score equal to
\* the threshold
C1_Witness ==
    /\ pc = "returned"
    /\ Len(candidates) >= 2
    /\ TopScore = min_relevance_score
    /\ result.source = "PREPARED"

\* C2: when retrieval returned no candidate, answer_question does not raise
\* (other than for an unavailable generation model): it returns a GENERATED
\* Decision built from an empty context.
C2_EmptyCandidatesGenerate ==
    (candidates = <<>> /\ pc \in {"returned", "raised"}) =>
        \/ /\ pc = "returned"
           /\ result.source = "GENERATED"
           /\ result.used_contexts = 0
           /\ context = <<>>
        \/ /\ pc = "raised"
           /\ error = "ProviderError"
           /\ generation_output # <<>>

\* C3: on the PREPARED branch the answer is the page content of the retrieved
\* document of the selected best candidate, the confidence is the score the
\* judgment model gave that candidate and the reasoning is the reasoning the
\* judgment model gave for it.
C3_PreparedVerbatim ==
    (pc = "returned" /\ result.source = "PREPARED") =>
        \E i \in DOMAIN candidates :
            /\ best_match = evaluations[i]
            /\ evaluations[i].relevance_score = TopScore
            /\ result.answer = vectorstore[i].page_content
            /\ result.metadata = vectorstore[i].metadata
            /\ result.confidence = raw_outputs[i].relevance_score
            /\ result.reasoning = raw_outputs[i].reasoning

\* C3 witness: a PREPARED Decision whose best candidate is not the first
\* retrieved one and differs from it in text and in reasoning
C3_Witness ==
    /\ pc = "returned"
    /\ result.source = "PREPARED"
    /\ FirstTop > 1
    /\ result.answer # candidates[1].answer
    /\ result.reasoning # evaluations[1].reasoning
    /\ result.answer = vectorstore[FirstTop].page_content

\* C4: on the GENERATED branch the confidence is the largest relevance score
\* of the candidates (which is below the threshold) and the reasoning
\* contains "No perfect match found (best: S/10)" with S that same score.
C4_GeneratedKeepsBestScore ==
    (pc = "returned" /\ result.source = "GENERATED") =>
        /\ result.confidence = TopScore
        /\ result.confidence < min_relevance_score
        /\ Contains(result.reasoning,
                    <<"No perfect match found (best: ">>
                      \o ScoreText(TopScore) \o <<"/10)">>)

\* C4 witness: a GENERATED Decision over several candidates whose best score
\* is 4, as in the end-to-end scenario
C4_Witness ==
    /\ pc = "returned"
    /\ result.source = "GENERATED"
    /\ Len(candidates) >= 2
    /\ min_relevance_score = DefaultMinRelevanceScore
    /\ result.confidence = 4
    /\ result.answer \in {"generated-1", "generated-2"}

\* C5: a judgment response that is not valid JSON does not abort the batch:
\* its candidate is recorded with score 0, reasoning "Evaluation failed" and
\* should_use false, and the candidate after it is still evaluated.
C5_InvalidJsonRecorded ==
    \A i \in DOMAIN raw_outputs :
        InvalidJson(raw_outputs[i]) =>
            /\ error # "JSONDecodeError"
            /\ i \in DOMAIN evaluations
            /\ IsFailedEvaluation(evaluations[i])
            /\ evaluations[i].answer = candidates[i].answer
            /\ (i < Len(candidates) /\ pc # "evaluate") => Len(raw_outputs) > i

\* C5 witness: a Decision returned although an earlier candidate's response
\* was not valid JSON, with a later candidate evaluated normally
C5_Witness ==
    /\ pc = "returned"
    /\ \E i, j \in DOMAIN raw_outputs :
          /\ i < j
          /\ InvalidJson(raw_outputs[i])
          /\ ValidEvaluation(raw_outputs[j])
          /\ IsFailedEvaluation(evaluations[i])
          /\ evaluations[j].relevance_score = raw_outputs[j].relevance_score

\* C6: a judgment response that is valid JSON but lacks one of the three keys
\* does not abort the batch: its candidate is recorded with score 0,
\* reasoning "Evaluation failed" and should_use false, and the candidate
\* after it is still evaluated.
C6_MissingKeyRecorded ==
    \A i \in DOMAIN raw_outputs :
        MissingKey(raw_outputs[i]) =>
            /\ error # "KeyError"
            /\ i \in DOMAIN evaluations
            /\ IsFailedEvaluation(evaluations[i])
            /\ (i < Len(candidates) /\ pc # "evaluate") => Len(raw_outputs) > i

\* C7: when some but not all judgment responses fail to parse (invalid JSON
\* or a missing key) and no provider is unavailable, answer_question returns
\* a Decision, and a candidate whose evaluation failed is selected as best
\* only when every candidate scores 0.
C7_PartialFailureStillDecides ==
    /\ ( /\ pc \in {"returned", "raised"}
         /\ ~ProviderFailed
         /\ \E i \in DOMAIN raw_outputs :
               InvalidJson(raw_outputs[i]) \/ MissingKey(raw_outputs[i])
         /\ \E j \in DOMAIN raw_outputs : ValidEvaluation(raw_outputs[j]) )
       => pc = "returned"
    /\ (pc \in {"generate", "returned"} /\ IsFailedEvaluation(best_match))
       => \A i \in DOMAIN evaluations : evaluations[i].relevance_score = 0

\* C8: the selected best candidate has the largest relevance score of all
\* evaluated candidates and, among the candidates that share it, is the
\* earliest in retrieval order.
C8_FirstMaximumSelected ==
    pc \in {"generate", "returned"} =>
        /\ \A i \in DOMAIN evaluations :
              evaluations[i].relevance_score <= best_match.relevance_score
        /\ best_match = evaluations[FirstTop]
        /\ best_match.answer = vectorstore[FirstTop].page_content
        /\ result.source = "PREPARED" =>
              result.answer = vectorstore[FirstTop].page_content

\* C8 witness: two candidates with different texts share the largest score
\* and the earlier one was returned
C8_Witness ==
    /\ pc = "returned"
    /\ result.source = "PREPARED"
    /\ \E i, j \in DOMAIN evaluations :
          /\ i < j
          /\ evaluations[i].relevance_score = TopScore
          /\ evaluations[j].relevance_score = TopScore
          /\ evaluations[i].answer # evaluations[j].answer
          /\ i = FirstTop
          /\ result.answer = evaluations[i].answer

\* C9: every Decision returned by answer_question has a confidence in 1..10,
\* on both branches, also when evaluations failed to parse.
C9_ConfidenceInRange ==
    pc = "returned" => result.confidence \in MinScore..MaxScore

\* C10: an unavailable provider, at the evaluation of any candidate or at the
\* generation call, ends answer_question with that error and without a
\* Decision; no evaluation (in particular no score-0 one) is recorded for it.
C10_ProviderFailurePropagates ==
    /\ \A i \in DOMAIN raw_outputs :
          raw_outputs[i].kind = "unavailable" =>
              /\ pc = "raised"
              /\ error = "ProviderError"
              /\ result = NoDecision
              /\ i = Len(raw_outputs)
              /\ Len(evaluations) = i - 1
    /\ \A i \in DOMAIN generation_output :
          generation_output[i].kind = "unavailable" =>
              /\ pc = "raised"
              /\ error = "ProviderError"
              /\ result = NoDecision

\* C10 witness: the provider became unavailable at a later candidate, after
\* an invalid-JSON response had been recorded with score 0
C10_Witness ==
    /\ pc = "raised"
    /\ error = "ProviderError"
    /\ \E i, j \in DOMAIN raw_outputs :
          /\ i < j
          /\ InvalidJson(raw_outputs[i])
          /\ raw_outputs[j].kind = "unavailable"
          /\ Len(evaluations) = j - 1


(* -------------------------- retriever: actions -------------------------- *)

\* the retrieval method returned or raised
RetrieverReturns(name, k, fetch_k, outcome) ==
    /\ r_op' = RetrieverOp(name, k, fetch_k)
    /\ r_queries' = outcome.queries
    /\ r_error' = outcome.error
    /\ r_docs' = outcome.docs
    /\ r_comparison' = NoComparison
    /\ UNCHANGED <<assistant_vars, store_vars, evaluator_vars, client_vars>>

BasicRetrieval(k) ==
    RetrieverReturns("basic", k, 0, basic_retrieval(vectorstore, k))

MmrRetrieval(k, fetch_k, sel) ==
    /\ sel \in MmrSelections(vectorstore, k, fetch_k)
    /\ RetrieverReturns("mmr", k, fetch_k,
          mmr_retrieval(vectorstore, k, fetch_k, DefaultLambdaTenths, sel))

CompressedRetrieval(k, kept) ==
    RetrieverReturns("compressed", k, 0, compressed_retrieval(vectorstore, k, kept))

HybridRetrieval(k, use_mmr, use_compression, sel, kept) ==
    /\ sel \in MmrSelections(vectorstore, k, DefaultFetchK)
    /\ RetrieverReturns("hybrid", k,
          IF use_mmr /\ ~use_compression THEN DefaultFetchK ELSE 0,
          hybrid_retrieval(vectorstore, k, use_mmr, use_compression, sel, kept))

\* compare_retrieval_methods(query, k)
CompareRetrievalMethods(k, sel) ==
    /\ sel \in MmrSelections(vectorstore, k, DefaultFetchK)
    /\ LET basic == basic_retrieval(vectorstore, k)
           mmr == mmr_retrieval(vectorstore, k, DefaultFetchK,
                                DefaultLambdaTenths, sel)
       IN  /\ r_op' = RetrieverOp("compare", k, DefaultFetchK)
           /\ r_queries' = basic.queries \o mmr.queries
           /\ r_error' = "none"
           /\ r_docs' = <<>>
           /\ r_comparison' = Comparison(basic.docs, mmr.docs)
    /\ UNCHANGED <<assistant_vars, store_vars, evaluator_vars, client_vars>>

\* the documents the compressor may keep out of the k nearest
KeptSets(k) == SUBSET (1..Min(k, Len(vectorstore)))

\* the answers of the index hybrid_retrieval can see: those of the MMR
\* search when it runs, a single one when it does not
HybridSelections(k, use_mmr, use_compression) ==
    IF use_mmr /\ ~use_compression
    THEN MmrSelections(vectorstore, k, DefaultFetchK)
    ELSE {similarity_search(vectorstore, k)}

RetrieverNext ==
    \/ \E k \in RetrieveKs : BasicRetrieval(k)
    \/ \E k \in RetrieveKs, fetch_k \in FetchKs :
          \E sel \in MmrSelections(vectorstore, k, fetch_k) :
              MmrRetrieval(k, fetch_k, sel)
    \/ \E k \in RetrieveKs : \E kept \in KeptSets(k) : CompressedRetrieval(k, kept)
    \/ \E k \in RetrieveKs, use_mmr \in BOOLEAN, use_compression \in BOOLEAN :
          \E sel \in HybridSelections(k, use_mmr, use_compression),
             kept \in IF use_compression THEN KeptSets(k) ELSE {{}} :
              HybridRetrieval(k, use_mmr, use_compression, sel, kept)
    \/ \E k \in RetrieveKs :
          \E sel \in MmrSelections(vectorstore, k, DefaultFetchK) :
              CompareRetrievalMethods(k, sel)

\* the retriever works on a fixed index; nothing else runs
RetrieverStart ==
    /\ vectorstore \in Stores
    /\ AssistantIdle /\ StoreInit /\ RetrieverInit /\ EvaluatorIdle /\ ClientIdle

RetrieverSpec == RetrieverStart /\ [][RetrieverNext]_vars


(* -------------------------- evaluator: actions -------------------------- *)

\* evaluate_retrieval returns its dictionary
EvaluateRetrieval ==
    /\ ev_pc = "called"
    /\ ev_metrics' = evaluate_retrieval(ev_call.retrieved_docs,
                                        ev_call.relevant_doc_ids, ev_call.k)
    /\ ev_pc' = "returned"
    /\ UNCHANGED ev_call
    /\ UNCHANGED run_vars
    /\ UNCHANGED <<assistant_vars, store_vars, retriever_vars, client_vars>>

EvaluatorNext == EvaluateRetrieval

\* evaluate_retrieval has been called with some arguments; nothing else runs
EvaluatorStart ==
    /\ vectorstore = <<>>
    /\ AssistantIdle /\ StoreInit /\ RetrieverInit /\ ClientIdle
    /\ ev_pc = "called"
    /\ ev_call \in EvalCalls
    /\ ev_metrics = NoMetrics
    /\ RunsInit

EvaluatorSpec == EvaluatorStart /\ [][EvaluatorNext]_vars

(* ---------------------- evaluator: runs, actions ------------------------ *)

\* the operation name returns or raises: what the evaluator did last
EvaluatorReturns(name, run, raised, run_metrics, quality, experiments) ==
    /\ ev_op' = EvaluatorOp(name, run)
    /\ ev_error' = raised
    /\ ev_run' = run_metrics
    /\ ev_quality' = quality
    /\ ev_experiments' = experiments

\* evaluate_retrieval(retrieved_docs, relevant_doc_ids, k) is called
CallEvaluateRetrieval(call) ==
    /\ ev_pc # "called"
    /\ ev_pc' = "called"
    /\ ev_call' = call
    /\ ev_metrics' = NoMetrics
    /\ EvaluatorReturns("evaluate_retrieval", RunInput(<<>>, None), "none",
                        NoRun, NoQuality, NoExperiments)
    /\ UNCHANGED <<evaluation_history, eval_files, ev_now>>
    /\ UNCHANGED <<assistant_vars, store_vars, retriever_vars, client_vars>>

\* evaluate_answer_quality(question, answer, ground_truth, context)
EvaluateAnswerQuality(qa_result, eval_item) ==
    /\ ev_pc # "called"
    /\ ev_pc' = "idle"
    /\ ev_call' = EvalCall(<<>>, <<>>, 0)
    /\ ev_metrics' = NoMetrics
    /\ EvaluatorReturns("evaluate_answer_quality", RunInput(<<>>, None), "none",
          NoRun,
          evaluate_answer_quality(qa_result.question, qa_result.answer,
                                  ItemGet(eval_item, "ground_truth_answer"),
                                  qa_result.source_documents),
          NoExperiments)
    /\ UNCHANGED <<evaluation_history, eval_files, ev_now>>
    /\ UNCHANGED <<assistant_vars, store_vars, retriever_vars, client_vars>>

\* compare_experiments(experiment_results)
CompareExperiments(experiment_results) ==
    /\ ev_pc # "called"
    /\ ev_pc' = "idle"
    /\ ev_call' = EvalCall(<<>>, <<>>, 0)
    /\ ev_metrics' = NoMetrics
    /\ EvaluatorReturns("compare_experiments", RunInput(<<>>, None), "none",
          NoRun, NoQuality, compare_experiments(experiment_results))
    /\ UNCHANGED <<evaluation_history, eval_files, ev_now>>
    /\ UNCHANGED <<assistant_vars, store_vars, retriever_vars, client_vars>>

\* evaluate_system_performance(qa_results, eval_dataset); next_second tells
\* whether the clock has reached a new second, saved whether
\* _save_evaluation wrote its file (it raises OSError otherwise)
EvaluateSystemPerformance(run, next_second, saved) ==
    LET now == IF next_second THEN Now(ev_now.second + 1, 0)
               ELSE Now(ev_now.second, ev_now.micro + 1)
        metrics == evaluate_system_performance(run.qa_results, run.eval_dataset, now)
    IN  /\ ev_pc # "called"
        /\ Len(evaluation_history) < MaxRuns
        /\ ev_now' = now
        /\ evaluation_history' = HistoryAfterRun(evaluation_history, metrics, saved)
        /\ eval_files' = IF saved THEN WriteFile(eval_files, now.second, metrics)
                         ELSE eval_files
        /\ ev_pc' = "idle"
        /\ ev_call' = EvalCall(<<>>, <<>>, 0)
        /\ ev_metrics' = NoMetrics
        /\ EvaluatorReturns("evaluate_system_performance", run,
              IF saved THEN "none" ELSE "OSError",
              IF saved THEN metrics ELSE NoRun,
              NoQuality, NoExperiments)
        /\ UNCHANGED <<assistant_vars, store_vars, retriever_vars, client_vars>>

\* the calls of evaluate_retrieval made on the sample results
SampleCalls ==
    { EvalCall(SampleResults[i].source_documents, ids, DefaultEvalK)
        : i \in DOMAIN SampleResults, ids \in {<<>>, <<0>>} }

RunsNext ==
    \/ \E call \in SampleCalls : CallEvaluateRetrieval(call)
    \/ EvaluateRetrieval
    \/ \E i \in DOMAIN SampleResults, j \in DOMAIN SampleItems :
          EvaluateAnswerQuality(SampleResults[i], SampleItems[j])
    \/ \E experiment_results \in Experiments : CompareExperiments(experiment_results)
    \/ \E run \in RunInputs, next_second \in BOOLEAN, saved \in BOOLEAN :
          EvaluateSystemPerformance(run, next_second, saved)

\* a new evaluator; nothing else runs
RunsStart ==
    /\ vectorstore = <<>>
    /\ AssistantIdle /\ StoreInit /\ RetrieverInit /\ EvaluatorIdle /\ ClientIdle

RunsSpec == RunsStart /\ [][RunsNext]_vars

(* ----------------- vocabulary of the vector store claims ---------------- *)

\* the positions of a document list that hold the first document of their
\* content
FirstPositions(docs) ==
    { i \in DOMAIN docs :
        \A j \in 1..(i - 1) : docs[j].page_content # docs[i].page_content }

\* the different contents of a document list
ContentsOf(docs) == { docs[i].page_content : i \in DOMAIN docs }

RECURSIVE PickFrom(_, _, _)
\* the elements of docs at the positions idx that are >= i, in order
PickFrom(docs, idx, i) ==
    IF i > Len(docs) THEN <<>>
    ELSE IF i \in idx THEN <<docs[i]>> \o PickFrom(docs, idx, i + 1)
    ELSE PickFrom(docs, idx, i + 1)

\* the first occurrence of each content of docs, in the order of docs
FirstOccurrences(docs) == PickFrom(docs, FirstPositions(docs), 1)

\* the entries the step has appended to the collection
Appended == SubSeq(collection', Len(collection) + 1, Len(collection'))

\* the step kept the entries that were in the collection, in place
KeptPrefix ==
    /\ Len(collection') >= Len(collection)
    /\ SubSeq(collection', 1, Len(collection)) = collection

\* the text occurs more than once in the document list
HasRepeatedContent(docs) ==
    \E i, j \in DOMAIN docs : i < j /\ docs[i].page_content = docs[j].page_content

(* ----------------------- vector store: claims --------------------------- *)

\* C11: create_vectorstore stores exactly the first document of each
\* distinct content of the batch, in the order of the batch: these are the
\* entries it appends, one per distinct content, and on an empty collection
\* they are the whole collection.
C11_CreateStoresFirstOccurrences ==
    [][ vs_op'.name = "create" =>
          /\ KeptPrefix
          /\ Appended = FirstOccurrences(vs_op'.documents)
          /\ Len(Appended) = Cardinality(ContentsOf(vs_op'.documents))
          /\ collection = <<>> =>
                Len(collection') = Cardinality(ContentsOf(vs_op'.documents))
      ]_vars

\* C11 witness: a batch A, B, A was created on an empty collection and the
\* collection holds its first two documents
C11_Witness ==
    /\ vs_op.name = "create"
    /\ Len(vs_op.documents) = 3
    /\ vs_op.documents[1].page_content = vs_op.documents[3].page_content
    /\ vs_op.documents[1].page_content # vs_op.documents[2].page_content
    /\ collection = <<vs_op.documents[1], vs_op.documents[2]>>

\* C12: a second create_vectorstore with the same documents against the same
\* persisted collection leaves the number of entries as it was after the
\* first.
C12_CreateIdempotent ==
    [][ ( /\ vs_op.name = "create"
          /\ vs_op'.name = "create"
          /\ vs_op'.documents = vs_op.documents )
        => Len(collection') = Len(collection) ]_vars

\* C13 as stated: in every reachable state no two entries of the collection
\* have the same content.
C13_NoTwoEntriesSameContent ==
    \A i, j \in DOMAIN collection :
        i # j => collection[i].page_content # collection[j].page_content

\* C13 amended: every create or add keeps the entries already stored and
\* appends entries of pairwise different content; two entries of the same
\* content are always entries appended by different calls.
C13_NoDuplicateWithinOneCall ==
    [][ /\ KeptPrefix
        /\ \A i, j \in DOMAIN Appended :
              i # j => Appended[i].page_content # Appended[j].page_content
      ]_vars

\* C13 witness: after an add of a batch with a repeated content the
\* collection holds that content twice, from two different calls
C13_Witness ==
    /\ vs_op.name = "add"
    /\ vs_error = "none"
    /\ HasRepeatedContent(vs_op.documents)
    /\ HasRepeatedContent(collection)

\* C14: add_documents on an initialized manager appends the first document
\* of each distinct content of the batch, in order, whatever the collection
\* already holds: the count grows by the number of distinct contents.
C14_AddIgnoresStoredEntries ==
    [][ (vs_op'.name = "add" /\ vs_error' = "none") =>
          /\ collection' = collection \o FirstOccurrences(vs_op'.documents)
          /\ Len(collection')
               = Len(collection) + Cardinality(ContentsOf(vs_op'.documents))
      ]_vars

\* C14 witness: an add appended a document whose content was already stored
C14_Witness ==
    /\ vs_op.name = "add"
    /\ vs_error = "none"
    /\ Cardinality(ContentsOf(vs_op.documents)) = 2
    /\ \E i \in DOMAIN collection :
          /\ i <= Len(collection) - 2
          /\ collection[i].page_content = collection[Len(collection)].page_content

\* C15: add_documents and similarity_search on a manager that was never
\* created or loaded raise at once, make no Chroma call, leave the manager
\* uninitialized and leave the persisted collection as it was.
C15_UninitializedFails ==
    [][ (manager_vectorstore = "None" /\ vs_op'.name \in {"add", "search"}) =>
          /\ vs_error' = "ValueError"
          /\ vs_calls' = <<>>
          /\ vs_result' = <<>>
          /\ manager_vectorstore' = "None"
          /\ collection' = collection
          /\ persisted' = persisted
      ]_vars

\* C15 witness: a new manager on a location that holds a persisted
\* collection refused an add
C15_Witness ==
    /\ vs_op.name = "add"
    /\ vs_op.documents # <<>>
    /\ vs_error = "ValueError"
    /\ manager_vectorstore = "None"
    /\ persisted
    /\ collection # <<>>

\* C16: load_vectorstore with no persisted collection at the location raises
\* and leaves the manager without a usable handle.
C16_LoadFailsWithoutIndex ==
    [][ (~persisted /\ vs_op'.name = "load") =>
          /\ vs_error' # "none"
          /\ manager_vectorstore' = "None"
          /\ ~persisted'
      ]_vars

\* C17: similarity_search returns at most k documents, and when a
\* score_threshold is supplied it returns exactly the documents among the k
\* nearest whose score is >= the threshold, nearest first.
C17_SearchFiltersByThreshold ==
    (vs_op.name = "search" /\ vs_error = "none") =>
        /\ Len(vs_result) <= vs_op.k
        /\ vs_op.score_threshold.supplied =>
              vs_result =
                PickFrom(Take(collection, vs_op.k),
                         { i \in DOMAIN vs_scores :
                             vs_scores[i] >= vs_op.score_threshold.value },
                         1)

(* -------------------------- retriever: claims --------------------------- *)

\* C18: a diversity-aware retrieval with fetch_k < k, called directly or
\* through hybrid_retrieval or compare_retrieval_methods with k above the
\* default fetch_k, raises an invalid-parameter error and sends no query to
\* the index.
C18_FetchKBelowKRejected ==
    ( /\ r_op.name \in {"mmr", "hybrid", "compare"}
      /\ r_op.fetch_k > 0
      /\ r_op.fetch_k < r_op.k )
    => /\ r_error = "InvalidParameterError"
       /\ r_queries = <<>>
       /\ r_docs = <<>>

(* -------------------------- evaluator: claims --------------------------- *)

\* the documents the metrics look at: the first k of the retrieved list
FirstK == Take(ev_call.retrieved_docs, ev_call.k)

\* the relevant doc_ids carried by one of the first k retrieved documents
RelevantAmongFirstK ==
    { id \in SetOf(ev_call.relevant_doc_ids) :
        \E i \in DOMAIN FirstK : <<"doc_id", id>> \in FirstK[i].metadata }

\* a doc_id is carried by two of the first k retrieved documents
RepeatedIdAmongFirstK ==
    \E i, j \in DOMAIN FirstK :
        /\ i < j
        /\ FirstK[i].metadata # {}
        /\ FirstK[i].metadata = FirstK[j].metadata

\* one of the first k retrieved documents has no doc_id
MissingIdAmongFirstK == \E i \in DOMAIN FirstK : FirstK[i].metadata = {}

C20_PrecisionRecallInUnitInterval ==
    (ev_pc = "returned" /\ ev_call.k > 0)
    => /\ FracLeq(Zero, ev_metrics.precision_at_k)
       /\ FracLeq(ev_metrics.precision_at_k, Frac(1, 1))
       /\ FracLeq(Zero, ev_metrics.recall_at_k)
       /\ FracLeq(ev_metrics.recall_at_k, Frac(1, 1))

\* a relevant doc_id is repeated among the first k, next to a document
\* without doc_id, and the recall is 1
C20_Witness ==
    /\ ev_pc = "returned"
    /\ ev_call.k > 0
    /\ RepeatedIdAmongFirstK
    /\ MissingIdAmongFirstK
    /\ Cardinality(RelevantAmongFirstK) > 0
    /\ FracEq(ev_metrics.recall_at_k, Frac(1, 1))

\* the relevant list names every id once
RelevantIsASet ==
    Cardinality(SetOf(ev_call.relevant_doc_ids)) = Len(ev_call.relevant_doc_ids)

\* the quotients evaluate_retrieval returned
ReturnedQuotients ==
    { ev_metrics.precision_at_k, ev_metrics.recall_at_k,
      ev_metrics.f1_score, ev_metrics.mrr }

\* C21: evaluate_retrieval divides by no zero; recall@k is 0 for an empty
\* relevant set and |retrieved /\ relevant| / |relevant| otherwise; f1 is 0
\* when precision and recall are both 0 and 2*p*r/(p+r) otherwise.
C21_NoDivisionByZero ==
    ev_pc = "returned"
    => LET p == ev_metrics.precision_at_k
           r == ev_metrics.recall_at_k
       IN  /\ \A q \in ReturnedQuotients : q.den > 0
           /\ ev_call.relevant_doc_ids = <<>> => FracEq(r, Zero)
           /\ (ev_call.k > 0 /\ ev_call.relevant_doc_ids # <<>> /\ RelevantIsASet)
                => FracEq(r, Frac(Cardinality(RelevantAmongFirstK),
                                  Cardinality(SetOf(ev_call.relevant_doc_ids))))
           /\ IF FracEq(p, Zero) /\ FracEq(r, Zero)
              THEN FracEq(ev_metrics.f1_score, Zero)
              ELSE FracEq(FracMul(ev_metrics.f1_score, FracAdd(p, r)),
                          FracMul(Frac(2, 1), FracMul(p, r)))

\* documents were retrieved for a question with no relevant document: both
\* guarded quotients were skipped
C21_Witness ==
    /\ ev_pc = "returned"
    /\ ev_call.k > 0
    /\ FirstK # <<>>
    /\ ev_call.relevant_doc_ids = <<>>
    /\ FracEq(ev_metrics.recall_at_k, Zero)
    /\ FracEq(ev_metrics.f1_score, Zero)

\* the positions among the first k retrieved documents whose doc_id is
\* relevant
RelevantPositions ==
    { i \in DOMAIN FirstK :
        \E id \in SetOf(ev_call.relevant_doc_ids) :
            <<"doc_id", id>> \in FirstK[i].metadata }

\* C22: for k > 0, mrr is 1/r for the first position r among the first k
\* retrieved documents whose doc_id is relevant, and 0 when there is none.
C22_MrrIsReciprocalOfFirstHit ==
    (ev_pc = "returned" /\ ev_call.k > 0)
    => IF RelevantPositions = {}
       THEN FracEq(ev_metrics.mrr, Zero)
       ELSE \E r \in RelevantPositions :
              /\ \A j \in RelevantPositions : r <= j
              /\ FracEq(ev_metrics.mrr, Frac(1, r))

\* retrieved doc_ids [1, 0, 0] with relevant [0] and k = 2: the first hit is
\* at position 2, a second one lies beyond k, and mrr is 1/2
C22_Witness ==
    /\ ev_pc = "returned"
    /\ ev_call.k = 2
    /\ Len(ev_call.retrieved_docs) > 2
    /\ ev_call.retrieved_docs[1].metadata = {<<"doc_id", 1>>}
    /\ ev_call.retrieved_docs[2].metadata = {<<"doc_id", 0>>}
    /\ ev_call.retrieved_docs[3].metadata = {<<"doc_id", 0>>}
    /\ ev_call.relevant_doc_ids = <<0>>
    /\ FracEq(ev_metrics.mrr, Frac(1, 2))

(* ----------------------- evaluator: runs, claims ------------------------ *)

\* this step is a call of evaluate_system_performance
RunStep ==
    /\ ev_op'.name = "evaluate_system_performance"
    /\ ev_now' # ev_now

\* C23: the evaluation history is append-only: a call of
\* evaluate_system_performance adds exactly one record at the end, and no
\* step of the evaluator removes, reorders or changes an earlier record.
C23_HistoryAppendOnly ==
    [][ IF RunStep
        THEN /\ Len(evaluation_history') = Len(evaluation_history) + 1
             /\ SubSeq(evaluation_history', 1, Len(evaluation_history))
                  = evaluation_history
        ELSE evaluation_history' = evaluation_history ]_vars

\* two runs were recorded in call order and another operation of the
\* evaluator was called after them
C23_Witness ==
    /\ Len(evaluation_history) = 2
    /\ evaluation_history[1].timestamp # evaluation_history[2].timestamp
    /\ \/ evaluation_history[1].timestamp.second < evaluation_history[2].timestamp.second
       \/ evaluation_history[1].timestamp.micro < evaluation_history[2].timestamp.micro
    /\ ev_op.name = "compare_experiments"

\* C30: when saving the record fails, evaluate_system_performance raises
\* and the record it built is the last of the history; no file is written
\* and the history is not rolled back.
C30_RecordKeptWhenSaveFails ==
    [][ (RunStep /\ ev_error' = "OSError")
        => /\ evaluation_history'
                = Append(evaluation_history,
                         evaluate_system_performance(ev_op'.run.qa_results,
                                                     ev_op'.run.eval_dataset,
                                                     ev_now'))
           /\ eval_files' = eval_files ]_vars

\* a run raised on saving: its record ends the history and is in no file
C30_Witness ==
    /\ ev_op.name = "evaluate_system_performance"
    /\ ev_error = "OSError"
    /\ evaluation_history # <<>>
    /\ evaluation_history[Len(evaluation_history)].timestamp = ev_now
    /\ \A name \in DOMAIN eval_files :
          eval_files[name] # evaluation_history[Len(evaluation_history)]

(* ------------------- retriever and store: further claims ---------------- *)

\* the contents of a list of documents
ContentSet(docs) == { docs[i].page_content : i \in DOMAIN docs }

\* the sum of the content lengths of a list of documents
SumOfLengths(docs) ==
    LET S[i \in 0..Len(docs)] ==
            IF i = 0 THEN 0 ELSE S[i - 1] + TextLength(docs[i].page_content)
    IN  S[Len(docs)]

\* C27: compare_retrieval_methods queries the index for the basic and then
\* for the diversity-aware retrieval; overlap is the number of distinct
\* contents present in both results, between 0 and the smaller of the two
\* counts; each method's count and total length are the number of its
\* documents and the sum of their content lengths.
C27_CompareReportsOverlap ==
    r_op.name = "compare"
    => LET basic == r_comparison.basic
           mmr == r_comparison.mmr
       IN  /\ Len(r_queries) = 2
           /\ r_queries[1].method = "similarity_search"
           /\ r_queries[2].method = "max_marginal_relevance_search"
           /\ r_queries[1].k = r_op.k /\ r_queries[2].k = r_op.k
           /\ r_comparison.overlap
                = Cardinality(ContentSet(basic.docs) \cap ContentSet(mmr.docs))
           /\ r_comparison.overlap >= 0
           /\ r_comparison.overlap <= Min(basic.num_docs, mmr.num_docs)
           /\ basic.num_docs = Len(basic.docs)
           /\ mmr.num_docs = Len(mmr.docs)
           /\ basic.total_length = SumOfLengths(basic.docs)
           /\ mmr.total_length = SumOfLengths(mmr.docs)

\* a comparison whose two results share one document but not the other,
\* the shared one at different positions
C27_Witness ==
    /\ r_op.name = "compare"
    /\ r_comparison.basic.num_docs = 2
    /\ r_comparison.mmr.num_docs = 2
    /\ r_comparison.overlap = 1
    /\ r_comparison.basic.docs[2].page_content
         = r_comparison.mmr.docs[1].page_content

\* C28: a search with score_threshold 0 takes the path of a search without
\* threshold: it asks the index for documents without scores and returns
\* the k nearest unfiltered, those scored below 0 included.
C28_ZeroThresholdFiltersNothing ==
    ( /\ vs_op.name = "search"
      /\ vs_error = "none"
      /\ vs_op.score_threshold = Threshold(0) )
    => /\ vs_calls = <<"Chroma.similarity_search">>
       /\ vs_result = Take(collection, vs_op.k)

\* a search with threshold 0 returned a document the backend scores -1
C28_Witness ==
    /\ vs_op.name = "search"
    /\ vs_error = "none"
    /\ vs_op.score_threshold = Threshold(0)
    /\ vs_result # <<>>
    /\ \E i \in DOMAIN vs_scores : i \in DOMAIN vs_result /\ vs_scores[i] < 0

(* ------------------ external calls and context: claims ------------------ *)

\* the documents the index returns for the question, in retrieval order
RetrievedInOrder == Take(vectorstore, top_k)

\* C25: the external calls of one question are one retrieval call, then one
\* judgment call per retrieved candidate in retrieval order, then at most
\* one generation call; the generation call comes only after all
\* judgments, once when the answer is GENERATED and never when it is
\* PREPARED.
C25_ExternalCallOrder ==
    LET n == Len(raw_outputs)
    IN  /\ pc = "idle" => external_calls = <<>>
        /\ pc # "idle" =>
             /\ Len(external_calls) = 1 + n + Len(generation_output)
             /\ external_calls[1].service = "index"
             /\ external_calls[1].k = top_k
             /\ n <= Len(RetrievedInOrder)
             /\ \A i \in 1..n :
                   /\ external_calls[1 + i].service = "judge"
                   /\ external_calls[1 + i].answer = RetrievedInOrder[i].page_content
             /\ Len(generation_output) <= 1
             /\ generation_output # <<>> =>
                   /\ n = Len(RetrievedInOrder)
                   /\ external_calls[Len(external_calls)].service = "generator"
        /\ pc = "returned" =>
             /\ n = Len(RetrievedInOrder)
             /\ result.source = "PREPARED" => generation_output = <<>>
             /\ result.source = "GENERATED" => Len(generation_output) = 1

\* a GENERATED answer over three candidates: five external calls were made
C25_Witness ==
    /\ pc = "returned"
    /\ result.source = "GENERATED"
    /\ Len(candidates) = 3
    /\ Len(external_calls) = 5
    /\ external_calls[2].answer # external_calls[4].answer
    /\ external_calls[5].service = "generator"

\* candidate i is ranked before candidate j by the selection: higher
\* relevance score first, the earlier one first among equal scores
RankedBefore(i, j) ==
    \/ evaluations[i].relevance_score > evaluations[j].relevance_score
    \/ /\ evaluations[i].relevance_score = evaluations[j].relevance_score
       /\ i < j

\* the candidates with fewer than ContextLimit candidates ranked before them
TopRanked ==
    { i \in DOMAIN evaluations :
        Cardinality({ j \in DOMAIN evaluations : RankedBefore(j, i) }) < ContextLimit }

\* C26: on the GENERATED branch the context holds the three candidates
\* ranked first by the selection (all candidates when there are fewer),
\* each with its label.
C26_ContextIsTopRanked ==
    (pc = "generate" \/ (pc = "returned" /\ result.source = "GENERATED"))
    => /\ { context[i].text : i \in DOMAIN context }
            = { evaluations[i].answer : i \in TopRanked }
       /\ \A i \in DOMAIN context : context[i].label = i

(* ------------------------ practice session: claims ---------------------- *)

\* the entries of the calls of a log that returned a Decision, in call order
EntriesOfReturnedCalls(log) ==
    LET E[i \in 0..Len(log)] ==
            IF i = 0 THEN <<>>
            ELSE IF log[i].outcome.pc = "returned"
                 THEN Append(E[i - 1],
                             [question |-> log[i].question,
                              result |-> log[i].outcome.result])
                 ELSE E[i - 1]
    IN  E[Len(log)]

\* the entries of the history whose answer came from the source
EntriesFrom(source) ==
    { i \in DOMAIN session_history : session_history[i].result.source = source }

\* C29: the session history holds one entry per practice_question call that
\* returned a Decision, in call order, and none for a call that raised; the
\* summary counts add up (prepared + generated = total) and the averages
\* are 0 for an empty history.
C29_SessionHistoryAndSummary ==
    /\ session_history = EntriesOfReturnedCalls(session_log)
    /\ session_pc.at = "summary" =>
         /\ session_summary.total_questions = Len(session_history)
         /\ session_summary.prepared_answers_used
              = Cardinality(EntriesFrom("PREPARED"))
         /\ session_summary.generated_answers
              = Cardinality(EntriesFrom("GENERATED"))
         /\ session_summary.prepared_answers_used + session_summary.generated_answers
              = session_summary.total_questions
         /\ session_summary.avg_confidence.den > 0
         /\ session_summary.prepared_percentage.den > 0
         /\ session_history = <<>> =>
              /\ FracEq(session_summary.avg_confidence, Zero)
              /\ FracEq(session_summary.prepared_percentage, Zero)

\* a call that raised followed by a call that returned: the summary counts
\* one question
C29_Witness ==
    /\ Len(session_log) = 2
    /\ session_log[1].outcome.pc = "raised"
    /\ session_log[2].outcome.pc = "returned"
    /\ Len(session_history) = 1
    /\ session_history[1].question = session_log[2].question
    /\ session_pc.at = "summary"
    /\ session_summary.total_questions = 1

(* ------------------------ concurrent calls: claims ---------------------- *)

\* how call t ended
EndOf(t) ==
    [pc |-> thread[t].pc, result |-> thread[t].result, error |-> thread[t].error]

\* C24: each of two interleaved answer_question calls ends as it would when
\* run alone on the same index with the same model responses, and the index
\* stays as it was.
C24_ConcurrentCallsIndependent ==
    /\ vectorstore = ClientIndex
    /\ \A t \in Threads :
          thread[t].pc \in {"returned", "raised"}
          => EndOf(t) = answer_question(vectorstore, thread[t].top_k,
                                        thread[t].min_relevance_score,
                                        thread[t].received,
                                        thread[t].generation_output)

\* both calls ran while the other was running, with different top_k; one
\* returned a prepared answer and the other a generated one
C24_Witness ==
    /\ \A t \in Threads : thread[t].pc = "returned" /\ thread[t].overlapped
    /\ thread[1].top_k # thread[2].top_k
    /\ thread[1].result.source = "PREPARED"
    /\ thread[2].result.source = "GENERATED"

====
